---------------------------- MODULE Spec2Model ----------------------------
(***************************************************************************)
(* A model of parts of mm2src:                                             *)
(*                                                                         *)
(*  - common/transport/wasm_ws.rs: the WebSocket transport.  One task owns *)
(*    the socket and runs the state machine Connecting / Open / Closing /  *)
(*    Closed.  It reads one merged stream of the user's outgoing messages, *)
(*    the socket callbacks' transport events and the user-shutdown signal, *)
(*    and notifies the user through the incoming channel.                  *)
(*                                                                         *)
(*  - lp_swap.rs: the registry of locked amounts (SwapsContext), the       *)
(*    kick-start of the saved swaps (swap_kick_starts), the functions that *)
(*    compute a value from their arguments, and the life of a swap as far  *)
(*    as it drives the registry and its event log.  The maker and taker    *)
(*    state machines are in maker_swap.rs and taker_swap.rs; what the      *)
(*    model needs of them is taken from the specification.                 *)
(*                                                                         *)
(*  - common/wasm_indexed_db.rs: IndexedDbBuilder::init, the set of the    *)
(*    open databases and the drop of an IndexedDb.                         *)
(*                                                                         *)
(*  - ordermatch_tests.rs: MakerOrder::available_amount and                *)
(*    match_order_and_request, as far as their tests show them.            *)
(*                                                                         *)
(*  - mm2_libp2p/src/peers_exchange.rs: PeersExchange, its list of known   *)
(*    peers and the address book of its request-response behaviour.        *)
(*                                                                         *)
(* Each part has its own specification (SpecWs, FairSpecWs, SpecReg,       *)
(* SpecSwap, SpecKick, SpecCalls, SpecDb, SpecRegThreads, SpecSpawn,       *)
(* SpecPeers); the variables of the other parts stay as Init leaves them.  *)
(***************************************************************************)
EXTENDS Integers, Sequences, FiniteSets, TLC

VARIABLES
    \* ---- wasm_ws.rs ----
    state,          \* the state whose on_changed is running (Closed: the task has exited)
    outgoing,       \* the outgoing channel: message ids the user sent, not yet taken
    transport,      \* the channel the four socket callbacks send WsTransportEvents into
    shutdown,       \* into_one_shutdown's signal: "pending", "ready" or "taken"
    out_senders,    \* how many WsOutgoingSender clones are alive
    in_rx_alive,    \* whether the user's WsIncomingReceiver is alive
    incoming,       \* the incoming channel: events sent to the user, not yet received
    received,       \* history: the events the user has received, in order
    notified,       \* history: every event handed to notify_listener, in order
    ws_sent,        \* history: the messages send_with_str was invoked with, in order
    ws_send_failed, \* history: the messages send_with_str answered with an error
    ws_close_calls, \* how many times close_with_code was invoked
    ws_close_codes, \* history: the codes close_with_code was invoked with
    n_transport,    \* how many events the socket callbacks have produced
    close_fired,    \* whether the onclose callback has fired
    enq_state,      \* history: enq_state[m] is the FSM state when message m was enqueued
    deq_state,      \* history: deq_state[m] is the FSM state when message m was taken
    last,           \* history: the event the FSM handled last and the state it was in
    cancelled,      \* history: the user dropped both ends while Connecting or Open
    \* ---- lp_swap.rs ----
    locked_amounts, \* SwapsContext::locked_amounts: uuid -> LockedAmount
    reg_last,       \* history: the last registry operation, and the map before it
    swap_events,    \* the event log of each swap (SWAPS/MY/<uuid>.json), <<>>: no swap
    swap_locked,    \* the coin and amount each swap locked when it was instantiated
    swap_last,      \* history: the last attempt to append an event to a log
    my_dir,         \* the files of SWAPS/MY when the process starts
    kick_coins,     \* the set swap_kick_starts returned
    kick_spawned,   \* the files whose swap swap_kick_starts spawned a thread for
    kicked,         \* whether swap_kick_starts has run
    call,           \* the function called and its arguments
    ret,            \* what the call returned, NoRet before it has run
    \* ---- common/wasm_indexed_db.rs ----
    open_databases, \* OPEN_DATABASES: the names of the databases that are open
    db_inits,       \* the calls of IndexedDbBuilder::init: where each is, its result
    db_handles,     \* the calls whose IndexedDb is alive
    db_last,        \* history: the last call of init, up to its first await
    dropped_since,  \* history: a handle of the name was dropped, none returned since
    \* ---- lp_swap.rs: the registry's mutex ----
    mtx_owner,      \* the thread that holds the guard of locked_amounts, "-": none
    reg_threads,    \* the threads that call the registry: where each is in its call
    mtx_between,    \* history: the map when the guard was dropped last
    \* ---- wasm_ws.rs: spawn_ws_transport ----
    spawned,        \* what spawn_ws_transport returned: "Ok", "Err", "-" before the call
    \* ---- mm2_libp2p/src/peers_exchange.rs ----
    known_peers,    \* PeersExchange::known_peers
    address_book,   \* the addresses request_response keeps for each peer
    peers_last      \* history: the last event PeersExchange handled

wsvars == <<state, outgoing, transport, shutdown, out_senders, in_rx_alive,
            incoming, received, notified, ws_sent, ws_send_failed, ws_close_calls,
            ws_close_codes, n_transport, close_fired, enq_state, deq_state, last,
            cancelled>>
regvars == <<locked_amounts, reg_last>>
swapvars == <<swap_events, swap_locked, swap_last>>
kickvars == <<my_dir, kick_coins, kick_spawned, kicked>>
callvars == <<call, ret>>
dbvars == <<open_databases, db_inits, db_handles, db_last, dropped_since>>
mtxvars == <<mtx_owner, reg_threads, mtx_between>>
spawnvars == <<spawned>>
peersvars == <<known_peers, address_book, peers_last>>
restvars == <<callvars, dbvars, mtxvars, spawnvars, peersvars>>
vars == <<wsvars, regvars, swapvars, kickvars, restvars>>

--------------------------------------------------------------------------
(* Bounds of the model.                                                    *)

\* How many inputs a connection gets over its life: the outgoing messages
\* the user sends plus the events the socket callbacks produce (the socket's
\* reply to close() not counted).
MaxInputs == 3
\* How many WsOutgoingSender clones may be alive at once.
MaxClones == 2
\* The capacity of the incoming channel (1024 in spawn_ws_transport), scaled.
IncomingCap == 2

--------------------------------------------------------------------------
(* Events.                                                                 *)

\* WebSocketEvent, with WebSocketError and OutgoingError folded into `reason`.
WsEv(type, reason, arg) == [type |-> type, reason |-> reason, arg |-> arg]
EvEstablish == WsEv("Establish", "-", 0)
EvClosing == WsEv("Closing", "-", 0)
EvClosed == WsEv("Closed", "-", 0)
EvIncoming(json) == WsEv("Incoming", "-", json)
EvUnderlyingError(desc) == WsEv("Error", "UnderlyingError", desc)
EvIsNotConnected(msg) == WsEv("Error", "IsNotConnected", msg)
EvSerializingError(msg) == WsEv("Error", "SerializingError", msg)

\* StateEvent, with WsTransportEvent folded in.
StEv(kind, arg) == [kind |-> kind, arg |-> arg]
TransportKinds == {"Establish", "Close", "Error", "Incoming"}

\* What a handler does: the next state, the events it notifies, the messages
\* it passes to send_with_str, and how many times it closes the socket.
Eff(next, notes, sends, closes) ==
    [next |-> next, notify |-> notes, send |-> sends, close |-> closes]


--------------------------------------------------------------------------
(* WsContext.                                                              *)

\* serde_json::to_string of a serde_json::Value: a Json value always
\* serializes (its map keys are strings, its numbers finite), to the text
\* that names it.
json_to_string(msg) == [ok |-> TRUE, req |-> msg]

\* WsContext::send_to_ws.  send_ok is the socket's answer to send_with_str.
\* The result: the messages send_with_str was invoked with, and the error.
send_to_ws(msg, send_ok) ==
    LET ser == json_to_string(msg) IN
    IF ser.ok
    THEN [send |-> <<ser.req>>,
          err |-> IF send_ok THEN <<>> ELSE <<EvUnderlyingError(0)>>]
    ELSE [send |-> <<>>, err |-> <<EvSerializingError(msg)>>]

\* WsContext::notify_listener on the incoming channel ch: nothing when the
\* receiver is gone (is_closed), and try_send fails when the channel is full.
notify_listener(ch, alive, event) ==
    IF alive
    THEN IF Len(ch) < IncomingCap THEN Append(ch, event) ELSE ch
    ELSE ch

RECURSIVE notify_all(_, _, _)
notify_all(ch, alive, events) ==
    IF events = <<>> THEN ch
    ELSE notify_all(notify_listener(ch, alive, Head(events)), alive, Tail(events))

\* WsContext::send_unexpected_outgoing_back: the event it notifies.
send_unexpected_outgoing_back(msg) == EvIsNotConnected(msg)

\* WsContext::notify_about_underlying_err: the event it notifies.
notify_about_underlying_err(description) == EvUnderlyingError(description)

\* const NORMAL_CLOSURE_CODE
NORMAL_CLOSURE_CODE == 1000

\* WsContext::close_ws, called `calls` times by a handler, each time with
\* NORMAL_CLOSURE_CODE: the codes close_with_code has been invoked with.
close_ws(codes, calls) == codes \o [i \in 1..calls |-> NORMAL_CLOSURE_CODE]

--------------------------------------------------------------------------
(* The states.  Each on_changed is given by what it does with one event of *)
(* its `while let Some(event)` loop; what it does before the loop is in    *)
(* on_entered.                                                             *)

\* The TransitionFrom impls: the declared edges.
TransitionFrom ==
    {<<"Connecting", "Open">>, <<"Connecting", "Closing">>, <<"Connecting", "Closed">>,
     <<"Open", "Closing">>, <<"Open", "Closed">>, <<"Closing", "Closed">>}

\* ConnectingState, StateEvent::UserSideClosed.
\* (mutant: the task ends at once, without closing the socket)
Connecting_UserSideClosed_ends == Eff("Closed", <<>>, <<>>, 0)

Connecting_UserSideClosed == Eff("Closing", <<>>, <<>>, 0)

\* ConnectingState, StateEvent::OutgoingMessage.
\* (mutant: the message is passed to the socket, as OpenState does)
Connecting_OutgoingMessage_forwards(msg) == Eff("Connecting", <<>>, <<msg>>, 0)

\* (mutant: the unexpected message makes the state close the socket)
Connecting_OutgoingMessage_closes(msg) ==
    Eff("Closing", <<send_unexpected_outgoing_back(msg)>>, <<>>, 0)

Connecting_OutgoingMessage(msg) ==
    Eff("Connecting", <<send_unexpected_outgoing_back(msg)>>, <<>>, 0)

\* (mutant: a Close of the socket is handled as an error is, through Closing)
ConnectingState_on_changed_closes(event, send_ok) ==
    CASE event.kind = "UserSideClosed" -> Connecting_UserSideClosed
      [] event.kind = "OutgoingMessage" -> Connecting_OutgoingMessage(event.arg)
      [] event.kind = "Establish" -> Eff("Open", <<>>, <<>>, 0)
      [] event.kind = "Close" -> Eff("Closing", <<>>, <<>>, 0)
      [] event.kind = "Error" ->
            Eff("Closing", <<notify_about_underlying_err(event.arg)>>, <<>>, 0)
      [] event.kind = "Incoming" -> Eff("Connecting", <<>>, <<>>, 0)

ConnectingState_on_changed(event, send_ok) ==
    CASE event.kind = "UserSideClosed" -> Connecting_UserSideClosed
      [] event.kind = "OutgoingMessage" -> Connecting_OutgoingMessage(event.arg)
      [] event.kind = "Establish" -> Eff("Open", <<>>, <<>>, 0)
      [] event.kind = "Close" -> Eff("Closed", <<>>, <<>>, 0)
      [] event.kind = "Error" ->
            Eff("Closing", <<notify_about_underlying_err(event.arg)>>, <<>>, 0)
      [] event.kind = "Incoming" -> Eff("Connecting", <<>>, <<>>, 0)

\* OpenState, StateEvent::OutgoingMessage.
\* (mutant: a failed send is tried once more)
Open_OutgoingMessage_resends(msg, send_ok) ==
    LET r == send_to_ws(msg, send_ok) IN
    Eff("Open", r.err, IF send_ok THEN r.send ELSE r.send \o r.send, 0)

\* (mutant: a failed send makes the state close the socket)
Open_OutgoingMessage_gives_up(msg, send_ok) ==
    LET r == send_to_ws(msg, send_ok) IN
    Eff(IF r.err = <<>> THEN "Open" ELSE "Closing", r.err, r.send, 0)

Open_OutgoingMessage(msg, send_ok) ==
    LET r == send_to_ws(msg, send_ok) IN Eff("Open", r.err, r.send, 0)

\* OpenState, WsTransportEvent::Error.
\* (mutant: the error ends the task without the closing state)
Open_Error_ends(description) ==
    Eff("Closed", <<notify_about_underlying_err(description)>>, <<>>, 0)

Open_Error(description) ==
    Eff("Closing", <<notify_about_underlying_err(description)>>, <<>>, 0)

OpenState_on_changed(event, send_ok) ==
    CASE event.kind = "UserSideClosed" -> Eff("Closing", <<>>, <<>>, 0)
      [] event.kind = "OutgoingMessage" -> Open_OutgoingMessage(event.arg, send_ok)
      [] event.kind = "Establish" -> Eff("Open", <<>>, <<>>, 0)
      [] event.kind = "Close" -> Eff("Closed", <<>>, <<>>, 0)
      [] event.kind = "Error" -> Open_Error(event.arg)
      [] event.kind = "Incoming" -> Eff("Open", <<EvIncoming(event.arg)>>, <<>>, 0)

\* ClosingState, the remaining WsTransportEvents (Establish, Incoming).
\* (mutant: a late Establish reopens the connection)
Closing_Unexpected_reopens(event) ==
    IF event.kind = "Establish" THEN Eff("Open", <<>>, <<>>, 0)
                                ELSE Eff("Closing", <<>>, <<>>, 0)

\* (mutant: a message that arrives while closing is still passed to the user)
Closing_Unexpected_forwards(event) ==
    IF event.kind = "Incoming" THEN Eff("Closing", <<EvIncoming(event.arg)>>, <<>>, 0)
                               ELSE Eff("Closing", <<>>, <<>>, 0)

Closing_Unexpected(event) == Eff("Closing", <<>>, <<>>, 0)

\* ClosingState, StateEvent::UserSideClosed.
\* (mutant: the state handles it as Open does, and closes the socket anew)
Closing_UserSideClosed_closes_again == Eff("Closing", <<EvClosing>>, <<>>, 1)

Closing_UserSideClosed == Eff("Closing", <<>>, <<>>, 0)

\* ClosingState, StateEvent::OutgoingMessage.
\* (mutant: the socket is not closed yet, the message is still passed to it)
Closing_OutgoingMessage_forwards(msg) == Eff("Closing", <<>>, <<msg>>, 0)

Closing_OutgoingMessage(msg) ==
    Eff("Closing", <<send_unexpected_outgoing_back(msg)>>, <<>>, 0)

\* ClosingState, WsTransportEvent::Close.
\* (mutant: the arm notifies Closed itself, before ClosedState does)
Closing_Close_notifies == Eff("Closed", <<EvClosed>>, <<>>, 0)

Closing_Close == Eff("Closed", <<>>, <<>>, 0)

ClosingState_on_changed(event, send_ok) ==
    CASE event.kind = "UserSideClosed" -> Closing_UserSideClosed
      [] event.kind = "OutgoingMessage" -> Closing_OutgoingMessage(event.arg)
      [] event.kind = "Close" -> Closing_Close
      [] event.kind = "Error" ->
            Eff("Closing", <<notify_about_underlying_err(event.arg)>>, <<>>, 0)
      [] OTHER -> Closing_Unexpected(event)

\* (mutant: OpenState starts its loop without notifying Establish)
on_entered_open_silent(next) ==
    CASE next = "Closing" -> Eff("Closing", <<EvClosing>>, <<>>, 1)
      [] next = "Closed" -> Eff("Closed", <<EvClosed>>, <<>>, 0)
      [] OTHER -> Eff(next, <<>>, <<>>, 0)

\* What a state's on_changed does when it is entered, before it waits for
\* an event.  ClosedState is the LastState: its on_changed is only this.
on_entered(next) ==
    CASE next = "Open" -> Eff("Open", <<EvEstablish>>, <<>>, 0)
      [] next = "Closing" -> Eff("Closing", <<EvClosing>>, <<>>, 1)
      [] next = "Closed" -> Eff("Closed", <<EvClosed>>, <<>>, 0)
      [] OTHER -> Eff(next, <<>>, <<>>, 0)

on_changed(st, event, send_ok) ==
    CASE st = "Connecting" -> ConnectingState_on_changed(event, send_ok)
      [] st = "Open" -> OpenState_on_changed(event, send_ok)
      [] st = "Closing" -> ClosingState_on_changed(event, send_ok)

--------------------------------------------------------------------------
(* The merged stream (StateEventListener).                                 *)

\* Which of the three merged streams have an item ready.  futures' select
\* polls its two streams in turn, so any ready one may be the next item.
ReadySources ==
    (IF outgoing # <<>> THEN {"outgoing"} ELSE {})
    \cup (IF transport # <<>> THEN {"transport"} ELSE {})
    \cup (IF shutdown = "ready" THEN {"shutdown"} ELSE {})

\* StateEventListener::new: the item a ready source yields, as a StateEvent.
StateEventOf(src) ==
    CASE src = "outgoing" -> StEv("OutgoingMessage", Head(outgoing))
      [] src = "transport" -> StEv(Head(transport).type, Head(transport).arg)
      [] src = "shutdown" -> StEv("UserSideClosed", 0)

--------------------------------------------------------------------------
(* The transport: initial state and steps.                                 *)

NoEvent == StEv("None", 0)

\* spawn_ws_transport returned Ok: the channels are empty, one sender and
\* the receiver are in the user's hands, the task starts in ConnectingState.
WsInit ==
    /\ state = "Connecting"
    /\ outgoing = <<>>
    /\ transport = <<>>
    /\ shutdown = "pending"
    /\ out_senders = 1
    /\ in_rx_alive = TRUE
    /\ incoming = <<>>
    /\ received = <<>>
    /\ notified = <<>>
    /\ ws_sent = <<>>
    /\ ws_send_failed = <<>>
    /\ ws_close_calls = 0
    /\ ws_close_codes = <<>>
    /\ n_transport = 0
    /\ close_fired = FALSE
    /\ enq_state = <<>>
    /\ deq_state = <<>>
    /\ last = [ev |-> NoEvent, from |-> "Connecting"]
    /\ cancelled = FALSE

\* WsOutgoingSender::send / try_send: the k-th message sent is message k.
\* Once the task has exited the receiving end is gone and the send fails.
\* The channel holds 1024 messages, more than MaxInputs: it is never full.
UserSend ==
    /\ out_senders > 0
    /\ state # "Closed"
    /\ Len(enq_state) + n_transport < MaxInputs
    /\ outgoing' = Append(outgoing, Len(enq_state) + 1)
    /\ enq_state' = Append(enq_state, state)
    /\ UNCHANGED <<regvars, swapvars, kickvars, restvars>>
    /\ UNCHANGED <<state, transport, shutdown, out_senders, in_rx_alive, incoming,
                   received, notified, ws_sent, ws_send_failed,
                   ws_close_calls, ws_close_codes, n_transport,
                   close_fired, deq_state, last, cancelled>>

\* #[derive(Clone)] on WsOutgoingSender: inner and shutdown_tx are cloned together.
UserCloneSender ==
    /\ out_senders > 0
    /\ out_senders < MaxClones
    /\ out_senders' = out_senders + 1
    /\ UNCHANGED <<regvars, swapvars, kickvars, restvars>>
    /\ UNCHANGED <<state, outgoing, transport, shutdown, in_rx_alive, incoming,
                   received, notified, ws_sent, ws_send_failed,
                   ws_close_calls, ws_close_codes, n_transport,
                   close_fired, enq_state, deq_state, last, cancelled>>

\* Whether the user has just let go of both ends of a live transport.
BothDropped(senders, rx_alive) == senders = 0 /\ ~rx_alive

\* Dropping one WsOutgoingSender (its inner sender and its shutdown_tx).
UserDropSender ==
    /\ out_senders > 0
    /\ out_senders' = out_senders - 1
    /\ cancelled' = (cancelled \/ (BothDropped(out_senders', in_rx_alive)
                                    /\ state \in {"Connecting", "Open"}))
    /\ UNCHANGED <<regvars, swapvars, kickvars, restvars>>
    /\ UNCHANGED <<state, outgoing, transport, shutdown, in_rx_alive, incoming,
                   received, notified, ws_sent, ws_send_failed,
                   ws_close_calls, ws_close_codes, n_transport,
                   close_fired, enq_state, deq_state, last>>

\* Dropping the WsIncomingReceiver (its inner receiver, with what it still
\* buffers, and its shutdown_tx).
UserDropReceiver ==
    /\ in_rx_alive
    /\ in_rx_alive' = FALSE
    /\ incoming' = <<>>
    /\ cancelled' = (cancelled \/ (BothDropped(out_senders, in_rx_alive')
                                    /\ state \in {"Connecting", "Open"}))
    /\ UNCHANGED <<regvars, swapvars, kickvars, restvars>>
    /\ UNCHANGED <<state, outgoing, transport, shutdown, out_senders,
                   received, notified, ws_sent, ws_send_failed,
                   ws_close_calls, ws_close_codes, n_transport,
                   close_fired, enq_state, deq_state, last>>

\* WsIncomingReceiver::poll_next yielding one event.
UserRecv ==
    /\ in_rx_alive
    /\ incoming # <<>>
    /\ received' = Append(received, Head(incoming))
    /\ incoming' = Tail(incoming)
    /\ UNCHANGED <<regvars, swapvars, kickvars, restvars>>
    /\ UNCHANGED <<state, outgoing, transport, shutdown, out_senders, in_rx_alive,
                   notified, ws_sent, ws_send_failed,
                   ws_close_calls, ws_close_codes, n_transport,
                   close_fired, enq_state, deq_state, last, cancelled>>

\* (mutant: select(left, right) alone, the other future is not awaited)
into_one_shutdown_either(senders, rx_alive) == senders = 0 \/ ~rx_alive

\* Whether the future into_one_shutdown spawns is through: select(left,
\* right) and then the other one, so both shutdown futures have completed.
into_one_shutdown(senders, rx_alive) == senders = 0 /\ ~rx_alive

\* The future spawned by into_one_shutdown completes and drops shutdown_tx.
ShutdownTask ==
    /\ shutdown = "pending"
    /\ into_one_shutdown(out_senders, in_rx_alive)
    /\ shutdown' = "ready"
    /\ UNCHANGED <<regvars, swapvars, kickvars, restvars>>
    /\ UNCHANGED <<state, outgoing, transport, out_senders, in_rx_alive, incoming,
                   received, notified, ws_sent, ws_send_failed,
                   ws_close_calls, ws_close_codes, n_transport,
                   close_fired, enq_state, deq_state, last, cancelled>>

\* construct_ws_event_closure: a socket callback sends its event.  The
\* closures live as long as the task; the socket fires nothing after onclose.
\* The channel holds 1024 events, more than MaxInputs: try_send never fails.
TransportEvent ==
    /\ state # "Closed"
    /\ ~close_fired
    /\ Len(enq_state) + n_transport < MaxInputs
    /\ \E kind \in TransportKinds :
          /\ transport' = Append(transport,
                [type |-> kind,
                 arg |-> IF kind \in {"Error", "Incoming"} THEN n_transport + 1 ELSE 0])
          /\ close_fired' = (kind = "Close")
    /\ n_transport' = n_transport + 1
    /\ UNCHANGED <<regvars, swapvars, kickvars, restvars>>
    /\ UNCHANGED <<state, outgoing, shutdown, out_senders, in_rx_alive, incoming,
                   received, notified, ws_sent, ws_send_failed,
                   ws_close_calls, ws_close_codes,
                   enq_state, deq_state, last, cancelled>>

\* The socket answers close_with_code with its close event.
CloseReply ==
    /\ state # "Closed"
    /\ ~close_fired
    /\ ws_close_calls > 0
    /\ transport' = Append(transport, [type |-> "Close", arg |-> 0])
    /\ close_fired' = TRUE
    /\ UNCHANGED <<regvars, swapvars, kickvars, restvars>>
    /\ UNCHANGED <<state, outgoing, shutdown, out_senders, in_rx_alive, incoming,
                   received, notified, ws_sent, ws_send_failed,
                   ws_close_calls, ws_close_codes, n_transport,
                   enq_state, deq_state, last, cancelled>>

\* (mutant: the event is sent with send().await, which waits for room)
FsmStep_awaits_send ==
    /\ state # "Closed"
    /\ \E src \in ReadySources, send_ok \in BOOLEAN :
          LET event == StateEventOf(src)
              h == on_changed(state, event, send_ok)
              e == IF h.next # state THEN on_entered(h.next)
                                     ELSE Eff(state, <<>>, <<>>, 0)
              notes == h.notify \o e.notify
          IN  /\ in_rx_alive => Len(incoming) + Len(notes) <= IncomingCap
              /\ state' = h.next
              /\ outgoing' = IF src = "outgoing" THEN Tail(outgoing) ELSE outgoing
              /\ transport' = IF src = "transport" THEN Tail(transport) ELSE transport
              /\ shutdown' = IF src = "shutdown" THEN "taken" ELSE shutdown
              /\ deq_state' = IF src = "outgoing" THEN Append(deq_state, state)
                                                  ELSE deq_state
              /\ incoming' = notify_all(incoming, in_rx_alive, notes)
              /\ notified' = notified \o notes
              /\ ws_sent' = ws_sent \o h.send
              /\ ws_send_failed' = IF send_ok THEN ws_send_failed
                                              ELSE ws_send_failed \o h.send
              /\ ws_close_calls' = ws_close_calls + h.close + e.close
              /\ ws_close_codes' = close_ws(ws_close_codes, h.close + e.close)
              /\ last' = [ev |-> event, from |-> state]
    /\ UNCHANGED <<regvars, swapvars, kickvars, restvars>>
    /\ UNCHANGED <<out_senders, in_rx_alive, received, n_transport, close_fired,
                   enq_state, cancelled>>

\* One turn of the running state's loop: receive_one yields an event, the
\* state handles it and, on change_state, the next state is entered.
\* receive_one never yields None: the callbacks hold senders of the
\* transport channel until the task is over, so the merged stream never
\* ends and the code after the loops is not reached.
FsmStep ==
    /\ state # "Closed"
    /\ \E src \in ReadySources, send_ok \in BOOLEAN :
          LET event == StateEventOf(src)
              h == on_changed(state, event, send_ok)
              e == IF h.next # state THEN on_entered(h.next)
                                     ELSE Eff(state, <<>>, <<>>, 0)
              notes == h.notify \o e.notify
          IN  /\ state' = h.next
              /\ outgoing' = IF src = "outgoing" THEN Tail(outgoing) ELSE outgoing
              /\ transport' = IF src = "transport" THEN Tail(transport) ELSE transport
              /\ shutdown' = IF src = "shutdown" THEN "taken" ELSE shutdown
              /\ deq_state' = IF src = "outgoing" THEN Append(deq_state, state)
                                                  ELSE deq_state
              /\ incoming' = notify_all(incoming, in_rx_alive, notes)
              /\ notified' = notified \o notes
              /\ ws_sent' = ws_sent \o h.send
              /\ ws_send_failed' = IF send_ok THEN ws_send_failed
                                              ELSE ws_send_failed \o h.send
              /\ ws_close_calls' = ws_close_calls + h.close + e.close
              /\ ws_close_codes' = close_ws(ws_close_codes, h.close + e.close)
              /\ last' = [ev |-> event, from |-> state]
    /\ UNCHANGED <<regvars, swapvars, kickvars, restvars>>
    /\ UNCHANGED <<out_senders, in_rx_alive, received, n_transport, close_fired,
                   enq_state, cancelled>>

WsNext ==
    \/ UserSend
    \/ UserCloneSender
    \/ UserDropSender
    \/ UserDropReceiver
    \/ UserRecv
    \/ ShutdownTask
    \/ TransportEvent
    \/ CloseReply
    \/ FsmStep

--------------------------------------------------------------------------
(* The registry of locked amounts (lp_swap.rs).                            *)

\* How many swaps (uuids) there are.
MaxSwaps == 2
\* The largest amount locked or unlocked at once.
MaxAmount == 3

Uuids == 1..MaxSwaps
Coins == {"KMD", "BTC"}

\* struct LockedAmount
LockedAmount(coin, amount) == [coin |-> coin, amount |-> amount]

\* (mutant: the entry API's or_insert, which keeps an entry that is there)
MapInsert_or_insert(map, key, value) ==
    [k \in DOMAIN map \cup {key} |-> IF k \in DOMAIN map THEN map[k] ELSE value]

\* HashMap::insert: the entry is set, whether or not the key was there.
MapInsert(map, key, value) ==
    [k \in DOMAIN map \cup {key} |-> IF k = key THEN value ELSE map[k]]

\* OccupiedEntry::remove
MapRemove(map, key) == [k \in DOMAIN map \ {key} |-> map[k]]

\* lock_amount: the map after it.
lock_amount(map, uuid, coin, amount) ==
    MapInsert(map, uuid, LockedAmount(coin, amount))

\* (mutant: `<` for `<=`, an entry unlocked in full stays with amount 0)
unlock_amount_strict(map, uuid, amount) ==
    IF uuid \in DOMAIN map
    THEN IF map[uuid].amount < amount
         THEN MapRemove(map, uuid)
         ELSE [map EXCEPT ![uuid].amount = @ - amount]
    ELSE map

\* (mutant: the entry is removed whatever the amount, a whole-swap unlock)
unlock_amount_removes(map, uuid, amount) ==
    IF uuid \in DOMAIN map THEN MapRemove(map, uuid) ELSE map

\* (mutant: the vacant entry is filled with a default LockedAmount)
unlock_amount_or_default(map, uuid, amount) ==
    IF uuid \in DOMAIN map
    THEN IF map[uuid].amount <= amount
         THEN MapRemove(map, uuid)
         ELSE [map EXCEPT ![uuid].amount = @ - amount]
    ELSE MapInsert(map, uuid, LockedAmount("", 0))

\* unlock_amount: the map after it.
unlock_amount(map, uuid, amount) ==
    IF uuid \in DOMAIN map
    THEN IF map[uuid].amount <= amount
         THEN MapRemove(map, uuid)
         ELSE [map EXCEPT ![uuid].amount = @ - amount]
    ELSE map

\* locked.iter().fold(0, ...) over the entries with keys in `keys`, in the
\* order the map yields them.
RECURSIVE fold_locked(_, _, _, _)
fold_locked(map, keys, coin, total) ==
    IF keys = {} THEN total
    ELSE LET k == CHOOSE x \in keys : TRUE
         IN fold_locked(map, keys \ {k}, coin,
                        IF map[k].coin = coin THEN total + map[k].amount ELSE total)

\* (mutant: the fold without its check of the coin)
RECURSIVE fold_any_coin(_, _, _)
fold_any_coin(map, keys, total) ==
    IF keys = {} THEN total
    ELSE LET k == CHOOSE x \in keys : TRUE
         IN fold_any_coin(map, keys \ {k}, total + map[k].amount)

get_locked_amount_any_coin(map, coin) == fold_any_coin(map, DOMAIN map, 0)

\* get_locked_amount
get_locked_amount(map, coin) == fold_locked(map, DOMAIN map, coin, 0)

\* The fold of get_locked_amount_by_other_swaps: an entry counts when its
\* key is not except_uuid and its coin is `coin`.
RECURSIVE fold_locked_by_other(_, _, _, _, _)
fold_locked_by_other(map, keys, except_uuid, coin, total) ==
    IF keys = {} THEN total
    ELSE LET k == CHOOSE x \in keys : TRUE
         IN fold_locked_by_other(map, keys \ {k}, except_uuid, coin,
                IF k # except_uuid /\ map[k].coin = coin
                THEN total + map[k].amount ELSE total)

\* (mutant: `||` for `&&` in the fold's condition)
RECURSIVE fold_locked_by_other_or(_, _, _, _, _)
fold_locked_by_other_or(map, keys, except_uuid, coin, total) ==
    IF keys = {} THEN total
    ELSE LET k == CHOOSE x \in keys : TRUE
         IN fold_locked_by_other_or(map, keys \ {k}, except_uuid, coin,
                IF k # except_uuid \/ map[k].coin = coin
                THEN total + map[k].amount ELSE total)

get_locked_amount_by_other_swaps_or(map, except_uuid, coin) ==
    fold_locked_by_other_or(map, DOMAIN map, except_uuid, coin, 0)

\* get_locked_amount_by_other_swaps
get_locked_amount_by_other_swaps(map, except_uuid, coin) ==
    fold_locked_by_other(map, DOMAIN map, except_uuid, coin, 0)

NoMap == [k \in {} |-> 0]

RegInit ==
    /\ locked_amounts = NoMap
    /\ reg_last = [op |-> "none", uuid |-> 0, coin |-> "-", amount |-> 0,
                   before |-> NoMap, result |-> 0]

LockAmount ==
    /\ UNCHANGED <<wsvars, swapvars, kickvars, restvars>>
    /\ \E uuid \in Uuids, coin \in Coins, amount \in 1..MaxAmount :
        /\ locked_amounts' = lock_amount(locked_amounts, uuid, coin, amount)
        /\ reg_last' = [op |-> "lock_amount", uuid |-> uuid, coin |-> coin,
                        amount |-> amount, before |-> locked_amounts, result |-> 0]

UnlockAmount ==
    /\ UNCHANGED <<wsvars, swapvars, kickvars, restvars>>
    /\ \E uuid \in Uuids, amount \in 0..MaxAmount :
        /\ locked_amounts' = unlock_amount(locked_amounts, uuid, amount)
        /\ reg_last' = [op |-> "unlock_amount", uuid |-> uuid, coin |-> "-",
                        amount |-> amount, before |-> locked_amounts, result |-> 0]

GetLockedAmount ==
    /\ UNCHANGED <<wsvars, swapvars, kickvars, restvars>>
    /\ \E coin \in Coins :
        /\ locked_amounts' = locked_amounts
        /\ reg_last' = [op |-> "get_locked_amount", uuid |-> 0, coin |-> coin,
                        amount |-> 0, before |-> locked_amounts,
                        result |-> get_locked_amount(locked_amounts, coin)]

GetLockedAmountByOtherSwaps ==
    /\ UNCHANGED <<wsvars, swapvars, kickvars, restvars>>
    /\ \E except_uuid \in Uuids, coin \in Coins :
        /\ locked_amounts' = locked_amounts
        /\ reg_last' = [op |-> "get_locked_amount_by_other_swaps",
                        uuid |-> except_uuid, coin |-> coin,
                        amount |-> 0, before |-> locked_amounts,
                        result |-> get_locked_amount_by_other_swaps(
                                       locked_amounts, except_uuid, coin)]

RegNext ==
    \/ LockAmount
    \/ UnlockAmount
    \/ GetLockedAmount
    \/ GetLockedAmountByOtherSwaps

--------------------------------------------------------------------------
(* The life of a swap, as far as it drives the registry and its event log. *)
(* The maker's log is modelled; the taker's mirrors it.                    *)

\* The events of a swap's log that the model tells apart.
SwapEvents ==
    {"Started", "StartFailed", "MakerPaymentSent", "TakerPaymentSpent", "MakerRefunded"}

\* The events that end a swap: failed, completed, refunded.
TerminalEvents == {"StartFailed", "TakerPaymentSpent", "MakerRefunded"}

\* MakerSavedSwap::is_finished, TakerSavedSwap::is_finished: whether the
\* log holds a terminal event.
is_finished(events) == \E i \in DOMAIN events : events[i] \in TerminalEvents

\* Whether the swap has sent its payment.
payment_sent(events) ==
    \E i \in DOMAIN events : events[i] = "MakerPaymentSent"

\* (mutant: the event is appended whatever the log holds)
append_event_always(events, ev) == Append(events, ev)

\* Appending an event to a swap's log: rejected once the log holds a
\* terminal event.
append_event(events, ev) ==
    IF is_finished(events) THEN events ELSE Append(events, ev)

\* The events the swap's state machine may record next: the last event
\* determines the next command.
NextEvents(events) ==
    IF events = <<>> THEN {}
    ELSE CASE events[Len(events)] = "Started" -> {"MakerPaymentSent", "StartFailed"}
           [] events[Len(events)] = "MakerPaymentSent" ->
                 {"TakerPaymentSpent", "MakerRefunded"}
           [] OTHER -> {}

NoAttempt == [uuid |-> 0, event |-> "-", before |-> <<>>]

SwapInit ==
    /\ swap_events = [u \in Uuids |-> <<>>]
    /\ swap_locked = [u \in Uuids |-> LockedAmount("-", 0)]
    /\ swap_last = NoAttempt

\* A swap is instantiated: it locks its amount (lock_amount is "called when
\* swap is instantiated") and records Started.
SwapStart ==
    /\ \E uuid \in Uuids, coin \in Coins, amount \in 1..MaxAmount :
          /\ swap_events[uuid] = <<>>
          /\ locked_amounts' = lock_amount(locked_amounts, uuid, coin, amount)
          /\ swap_locked' = [swap_locked EXCEPT ![uuid] = LockedAmount(coin, amount)]
          /\ swap_events' = [swap_events EXCEPT ![uuid] = append_event(@, "Started")]
          /\ swap_last' = [uuid |-> uuid, event |-> "Started", before |-> <<>>]
    /\ UNCHANGED <<wsvars, kickvars, reg_last, restvars>>

\* A state of the swap's machine runs and records its event.  The state
\* that sends the payment unlocks the swap's amount (unlock_amount is
\* "called when swap transaction is sent"), and so does a state that ends
\* the swap.
SwapStep ==
    /\ \E uuid \in Uuids :
          \E ev \in NextEvents(swap_events[uuid]) :
              /\ locked_amounts' =
                    unlock_amount(locked_amounts, uuid, swap_locked[uuid].amount)
              /\ swap_events' = [swap_events EXCEPT ![uuid] = append_event(@, ev)]
              /\ swap_last' = [uuid |-> uuid, event |-> ev,
                               before |-> swap_events[uuid]]
    /\ UNCHANGED <<wsvars, kickvars, reg_last, swap_locked, restvars>>

\* An event is handed to the log of a swap that has ended.
SwapLateAppend ==
    /\ \E uuid \in Uuids, ev \in SwapEvents :
          /\ is_finished(swap_events[uuid])
          /\ swap_events' = [swap_events EXCEPT ![uuid] = append_event(@, ev)]
          /\ swap_last' = [uuid |-> uuid, event |-> ev,
                           before |-> swap_events[uuid]]
    /\ UNCHANGED <<wsvars, kickvars, regvars, swap_locked, restvars>>

SwapNext ==
    \/ SwapStart
    \/ SwapStep
    \/ SwapLateAppend

--------------------------------------------------------------------------
(* The kick-start of the saved swaps (swap_kick_starts).                   *)

\* How many files SWAPS/MY holds at most.
MaxFiles == 2

FileNames == 1..MaxFiles

\* What maker_coin_ticker and taker_coin_ticker return: Ok(ticker), or Err.
TickerResults == Coins \cup {"Err"}

\* A SavedSwap as parsed from a file: its variant, its event log and what
\* the two ticker getters return for it.
SavedSwaps ==
    [type : {"Maker", "Taker"},
     events : {<<"Started">>, <<"Started", "MakerPaymentSent", "MakerRefunded">>},
     maker_coin : TickerResults,
     taker_coin : TickerResults]

UnfinishedSwap ==
    [type |-> "Maker", events |-> <<"Started">>, maker_coin |-> "KMD",
     taker_coin |-> "BTC"]

\* A file: whether it is there, its extension, whether json::from_slice
\* parses its content as a SavedSwap, and the swap parsed.
File(present, ext, parses, swap) ==
    [present |-> present, ext |-> ext, parses |-> parses, swap |-> swap]

\* The files a directory may hold: none, a file that is not *.json (with a
\* swap that is not finished in it), a *.json file that does not parse, and
\* the *.json files of the SavedSwaps.
Files ==
    {File(FALSE, "-", FALSE, UnfinishedSwap),
     File(TRUE, "tmp", TRUE, UnfinishedSwap),
     File(TRUE, "json", FALSE, UnfinishedSwap)}
    \cup {File(TRUE, "json", TRUE, swap) : swap \in SavedSwaps}

\* SavedSwap::is_finished
SavedSwap_is_finished(swap) == is_finished(swap.events)

\* What swap_kick_starts does with one file: the tickers it inserts into
\* `coins`, and whether it spawns the thread that resumes the swap.
Kick(tickers, spawns) == [coins |-> tickers, spawn |-> spawns]

\* (mutant: the check of is_finished is left out)
kick_start_entry_any(file) ==
    IF ~file.present \/ file.ext # "json" \/ ~file.parses THEN Kick({}, FALSE)
    ELSE IF file.swap.maker_coin = "Err" THEN Kick({}, FALSE)
    ELSE IF file.swap.taker_coin = "Err" THEN Kick({file.swap.maker_coin}, FALSE)
    ELSE Kick({file.swap.maker_coin, file.swap.taker_coin}, TRUE)

kick_start_entry(file) ==
    IF ~file.present \/ file.ext # "json" THEN Kick({}, FALSE)
    ELSE IF ~file.parses THEN Kick({}, FALSE)
    ELSE IF SavedSwap_is_finished(file.swap) THEN Kick({}, FALSE)
    ELSE IF file.swap.maker_coin = "Err" THEN Kick({}, FALSE)
    ELSE IF file.swap.taker_coin = "Err" THEN Kick({file.swap.maker_coin}, FALSE)
    ELSE Kick({file.swap.maker_coin, file.swap.taker_coin}, TRUE)

\* swap_kick_starts: the set it returns and the files it spawns a thread for.
swap_kick_starts(dir) ==
    [coins |-> UNION {kick_start_entry(dir[f]).coins : f \in DOMAIN dir},
     spawned |-> {f \in DOMAIN dir : kick_start_entry(dir[f]).spawn}]

\* The process starts with any files in SWAPS/MY.
KickInit ==
    /\ my_dir \in [FileNames -> Files]
    /\ kick_coins = {}
    /\ kick_spawned = {}
    /\ kicked = FALSE

\* Elsewhere the directory is empty and is not looked at.
KickIdle ==
    /\ my_dir = [f \in FileNames |-> File(FALSE, "-", FALSE, UnfinishedSwap)]
    /\ kick_coins = {}
    /\ kick_spawned = {}
    /\ kicked = FALSE

SwapKickStarts ==
    /\ ~kicked
    /\ kicked' = TRUE
    /\ kick_coins' = swap_kick_starts(my_dir).coins
    /\ kick_spawned' = swap_kick_starts(my_dir).spawned
    /\ UNCHANGED <<wsvars, regvars, swapvars, my_dir, restvars>>

\* A swap file is written or removed before the process starts anew.
KickRestart ==
    /\ kicked
    /\ \E f \in FileNames, file \in Files :
          my_dir' = [my_dir EXCEPT ![f] = file]
    /\ kicked' = FALSE
    /\ kick_coins' = {}
    /\ kick_spawned' = {}
    /\ UNCHANGED <<wsvars, regvars, swapvars, restvars>>

KickNext ==
    \/ SwapKickStarts
    \/ KickRestart

--------------------------------------------------------------------------
(* lp_swap.rs: the functions that read their arguments and the files and   *)
(* return a value.  `call` holds the function and its arguments, `ret` the *)
(* value it returned.                                                      *)

DEFAULT_LIMIT == 10

MaxListed == 3      \* the most files of a small SWAPS/MY directory
MaxMtime == 2       \* the modification times of the files are 1..MaxMtime
MaxLimit == 2       \* the explicit limits of a request are 0..MaxLimit

NoRet == [status |-> 0]

None == [some |-> FALSE]
Some(x) == [some |-> TRUE, v |-> x]

\* A file of SWAPS/MY as read_dir yields it; the i-th entry is <i>.<ext>.
\* m_time 0: metadata() or modified() answered Err.
DirEntries ==
    [ext : {"json"}, m_time : 1..MaxMtime, parses : BOOLEAN]
        \cup {[ext |-> "tmp", m_time |-> 1, parses |-> FALSE],
              [ext |-> "json", m_time |-> 0, parses |-> TRUE]}

\* The small directories, and one with more files than the default limit.
Dirs ==
    UNION {[1..n -> DirEntries] : n \in 0..MaxListed}
        \cup {[i \in 1..(DEFAULT_LIMIT + 1) |->
                 [ext |-> "json", m_time |-> 1 + (i % MaxMtime), parses |-> TRUE]]}

RecentReqs ==
    [limit : {None} \cup {Some(l) : l \in 0..MaxLimit} \cup {Some(DEFAULT_LIMIT + 1)},
     from_uuid : {None} \cup {Some(u) : u \in 1..(MaxListed + 1)}]

\* The filter_map over read_dir: the entries with a modification time and
\* the extension json, as (m_time, entry).
RECURSIVE read_dir_entries(_, _)
read_dir_entries(dir, i) ==
    IF i > Len(dir) THEN <<>>
    ELSE IF dir[i].m_time = 0 THEN read_dir_entries(dir, i + 1)
    ELSE IF dir[i].ext = "json"
         THEN <<[m_time |-> dir[i].m_time, path |-> i, parses |-> dir[i].parses]>>
                  \o read_dir_entries(dir, i + 1)
    ELSE read_dir_entries(dir, i + 1)

\* entries.sort_by(|(a, _), (b, _)| b.cmp(&a)): a stable sort, latest first.
RECURSIVE insert_sorted(_, _)
insert_sorted(sorted, e) ==
    IF sorted = <<>> THEN <<e>>
    ELSE IF Head(sorted).m_time >= e.m_time
         THEN <<Head(sorted)>> \o insert_sorted(Tail(sorted), e)
    ELSE <<e>> \o sorted

RECURSIVE sort_by_m_time_asc(_)
sort_by_m_time_asc(es) ==
    IF es = <<>> THEN <<>>
    ELSE LET rest == sort_by_m_time_asc(SubSeq(es, 1, Len(es) - 1))
             e == es[Len(es)]
             before == SelectSeq(rest, LAMBDA x : x.m_time <= e.m_time)
             after == SelectSeq(rest, LAMBDA x : x.m_time > e.m_time)
         IN before \o <<e>> \o after

RECURSIVE sort_by_m_time(_)
sort_by_m_time(es) ==
    IF es = <<>> THEN <<>>
    ELSE insert_sorted(sort_by_m_time(SubSeq(es, 1, Len(es) - 1)), es[Len(es)])

\* entries.iter().position(|(_, entry)| entry.path() == my_swap_file_path(uuid))
position(entries, uuid) ==
    IF \E i \in DOMAIN entries : entries[i].path = uuid
    THEN Some((CHOOSE i \in DOMAIN entries :
                  /\ entries[i].path = uuid
                  /\ \A j \in 1..(i - 1) : entries[j].path # uuid) - 1)
    ELSE None

\* json::from_slice::<SavedSwap>(&slurp(path)): the swap's json, or Json::Null (0).
swap_json(entry) == IF entry.parses THEN entry.path ELSE 0

skip_take(entries, skip, limit) ==
    SubSeq(entries, skip + 1, IF skip + limit < Len(entries) THEN skip + limit ELSE Len(entries))

\* `paths` is history: the files the returned swaps were read from.
my_recent_swaps(dir, req) ==
    LET limit == IF req.limit.some THEN req.limit.v ELSE DEFAULT_LIMIT
        entries == sort_by_m_time(read_dir_entries(dir, 1))
        pos == IF req.from_uuid.some THEN position(entries, req.from_uuid.v) ELSE None
    IN IF req.from_uuid.some /\ ~pos.some
       THEN [status |-> 500, error |-> "from_uuid swap is not found"]
       ELSE LET skip == IF req.from_uuid.some THEN pos.v + 1 ELSE 0
                taken == skip_take(entries, skip, limit)
            IN [status |-> 200,
                swaps |-> [i \in DOMAIN taken |-> swap_json(taken[i])],
                paths |-> [i \in DOMAIN taken |-> taken[i].path],
                from_uuid |-> req.from_uuid,
                skipped |-> skip,
                limit |-> limit,
                total |-> Len(entries)]

RecentCalls == [fn : {"my_recent_swaps"}, dir : Dirs, req : RecentReqs]

MyRecentSwaps ==
    /\ call.fn = "my_recent_swaps"
    /\ ret = NoRet
    /\ ret' = my_recent_swaps(call.dir, call.req)
    /\ UNCHANGED <<call, wsvars, regvars, swapvars, kickvars, dbvars, mtxvars, spawnvars,
                   peersvars>>

PAYMENT_LOCKTIME == 3600 * 2 + 300 * 2

Tickers == {"BTC", "BCH", "BTG", "SBTC", "KMD", "ETH"}

Returned(v) == [status |-> 200, value |-> v]

lp_atomic_locktime_slow_first(base, rel) ==
    IF base = "BCH" \/ rel = "BCH" \/ base = "BTG" \/ rel = "BTG" \/ base = "SBTC" \/ rel = "SBTC"
    THEN PAYMENT_LOCKTIME * 4
    ELSE IF base = "BTC" \/ rel = "BTC" THEN PAYMENT_LOCKTIME * 10
    ELSE PAYMENT_LOCKTIME

lp_atomic_locktime(base, rel) ==
    IF base = "BTC" \/ rel = "BTC" THEN PAYMENT_LOCKTIME * 10
    ELSE IF base = "BCH" \/ rel = "BCH" \/ base = "BTG" \/ rel = "BTG" \/ base = "SBTC" \/ rel = "SBTC"
         THEN PAYMENT_LOCKTIME * 4
    ELSE PAYMENT_LOCKTIME

LocktimeCalls == [fn : {"lp_atomic_locktime"}, base : Tickers, rel : Tickers]

LpAtomicLocktime ==
    /\ call.fn = "lp_atomic_locktime"
    /\ ret = NoRet
    /\ ret' = Returned(lp_atomic_locktime(call.base, call.rel))
    /\ UNCHANGED <<call, wsvars, regvars, swapvars, kickvars, dbvars, mtxvars, spawnvars,
                   peersvars>>

\* ---- BigDecimal: an integer and the number of its decimal places ----

MaxAmountInt == 100     \* the digits of a trade amount are 1..MaxAmountInt
MaxAmountScale == 3     \* a trade amount has 0..MaxAmountScale decimal places
DivScale == 7           \* the decimal places a quotient is computed to

Dec(i, s) == [int |-> i, scale |-> s]

RECURSIVE Pow10(_)
Pow10(n) == IF n = 0 THEN 1 ELSE 10 * Pow10(n - 1)

\* a * b of two BigDecimals: exact.
dec_mul(a, b) == Dec(a.int * b.int, a.scale + b.scale)

\* BigDecimal::from(a) / BigDecimal::from(b): the quotient's digits up to
\* the precision of the division, the rest cut off.
dec_div(a, b) == Dec((a * Pow10(DivScale)) \div b, DivScale)

\* a < b of two BigDecimals: compared at the larger scale.
dec_lt(a, b) ==
    LET s == IF a.scale > b.scale THEN a.scale ELSE b.scale
    IN a.int * Pow10(s - a.scale) < b.int * Pow10(s - b.scale)

\* a == b of two BigDecimals: 1.0 equals 1.00.
dec_eq(a, b) == ~dec_lt(a, b) /\ ~dec_lt(b, a)

TradeAmounts == {Dec(i, s) : i \in 1..MaxAmountInt, s \in 0..MaxAmountScale}

dex_fee_rate_flat(base, rel) == dec_div(1, 777)

dex_fee_rate(base, rel) ==
    IF base = "KMD" \/ rel = "KMD" THEN dec_div(9, 7770)
    ELSE dec_div(1, 777)

dex_fee_amount_no_floor(base, rel, trade_amount) ==
    dec_mul(trade_amount, dex_fee_rate(base, rel))

dex_fee_amount(base, rel, trade_amount) ==
    LET rate == dex_fee_rate(base, rel)
        min_fee == Dec(1, 4)
        fee_amount == dec_mul(trade_amount, rate)
    IN IF dec_lt(fee_amount, min_fee) THEN min_fee ELSE fee_amount

DexFeeCalls ==
    [fn : {"dex_fee_amount"}, base : Tickers, rel : Tickers, trade_amount : TradeAmounts]

DexFeeAmount ==
    /\ call.fn = "dex_fee_amount"
    /\ ret = NoRet
    /\ ret' = Returned(dex_fee_amount(call.base, call.rel, call.trade_amount))
    /\ UNCHANGED <<call, wsvars, regvars, swapvars, kickvars, dbvars, mtxvars, spawnvars,
                   peersvars>>

\* ---- broadcast_my_swap_status ----

MaxSecret == 2      \* the secrets are 1..MaxSecret; 0 is H256::default()

\* What SWAPS/MY/<uuid>.json may hold: nothing that parses, a maker's swap
\* with its secret, a taker's swap with the secret its TakerPaymentSpent
\* event carries (0: the event is not there yet).
MySwapFiles ==
    {[parses |-> FALSE]}
        \cup [parses : {TRUE}, type : {"Maker"}, uuid : Uuids, secret : 1..MaxSecret]
        \cup [parses : {TRUE}, type : {"Taker"}, uuid : Uuids, secret : 0..MaxSecret]

\* MakerSavedSwap::hide_secret
hide_secret(swap) == [swap EXCEPT !.secret = 0]

prepare_status_as_is(status) == status

\* The match of broadcast_my_swap_status: nothing for a taker, hide_secret
\* for a maker.
prepare_status(status) ==
    IF status.type = "Taker" THEN status ELSE hide_secret(status)

stats_maker_swap_file_path(uuid) == [dir |-> "MAKER", uuid |-> uuid]
stats_taker_swap_file_path(uuid) == [dir |-> "TAKER", uuid |-> uuid]

\* save_stats_swap: the file it writes, or the error of File::create.
save_stats_swap(swap, create_ok) ==
    LET path == IF swap.type = "Maker" THEN stats_maker_swap_file_path(swap.uuid)
                ELSE stats_taker_swap_file_path(swap.uuid)
    IN IF create_ok THEN [ok |-> TRUE, path |-> path, content |-> swap]
       ELSE [ok |-> FALSE]

\* broadcast_my_swap_status: its result, MY's file after it, the STATS file
\* it wrote and the message it broadcast (`none` where there is none).
broadcast_my_swap_status(my_file, create_ok) ==
    IF ~my_file.parses
    THEN [status |-> 500, my_file |-> my_file, stats |-> [ok |-> FALSE], msg |-> [sent |-> FALSE]]
    ELSE LET status == prepare_status(my_file)
             saved == save_stats_swap(status, create_ok)
         IN IF ~saved.ok
            THEN [status |-> 500, my_file |-> my_file, stats |-> saved, msg |-> [sent |-> FALSE]]
            ELSE [status |-> 200, my_file |-> my_file, stats |-> saved,
                  msg |-> [sent |-> TRUE, method |-> "swapstatus", data |-> status]]

BroadcastCalls == [fn : {"broadcast_my_swap_status"}, my_file : MySwapFiles, create_ok : BOOLEAN]

BroadcastMySwapStatus ==
    /\ call.fn = "broadcast_my_swap_status"
    /\ ret = NoRet
    /\ ret' = broadcast_my_swap_status(call.my_file, call.create_ok)
    /\ UNCHANGED <<call, wsvars, regvars, swapvars, kickvars, dbvars, mtxvars, spawnvars,
                   peersvars>>

\* ---- SwapNegotiationData and its serialization ----

U64_SIZE == 8
H160_SIZE == 20
H264_SIZE == 33

\* Some u64 values, one and several bytes long.
U64Samples == {0, 1, 255, 256, 65535, 16777216}

\* Some hashes of n bytes: H::default(), and two that differ in every byte.
HashSamples(n) ==
    {[i \in 1..n |-> 0], [i \in 1..n |-> i], [i \in 1..n |-> 255 - i]}

\* struct SwapNegotiationData
SwapNegotiationData ==
    [started_at : U64Samples,
     payment_locktime : U64Samples,
     secret_hash : HashSamples(H160_SIZE),
     persistent_pubkey : HashSamples(H264_SIZE)]

\* The n bytes of v, the least significant first.
RECURSIVE le_bytes(_, _)
le_bytes(v, n) ==
    IF n = 0 THEN <<>> ELSE <<v % 256>> \o le_bytes(v \div 256, n - 1)

\* The value of bytes read the least significant first.
RECURSIVE from_le_bytes(_)
from_le_bytes(bytes) ==
    IF bytes = <<>> THEN 0 ELSE Head(bytes) + 256 * from_le_bytes(Tail(bytes))

\* serialize(&data): the fields in the order of the struct.
serialize(data) ==
    le_bytes(data.started_at, U64_SIZE)
        \o le_bytes(data.payment_locktime, U64_SIZE)
        \o data.secret_hash
        \o data.persistent_pubkey

Field(bytes, from, size) == SubSeq(bytes, from + 1, from + size)

deserialize_locktime_first(bytes) ==
    IF Len(bytes) # U64_SIZE + U64_SIZE + H160_SIZE + H264_SIZE
    THEN [ok |-> FALSE]
    ELSE [ok |-> TRUE,
          data |-> [payment_locktime |-> from_le_bytes(Field(bytes, 0, U64_SIZE)),
                    started_at |-> from_le_bytes(Field(bytes, U64_SIZE, U64_SIZE)),
                    secret_hash |-> Field(bytes, 2 * U64_SIZE, H160_SIZE),
                    persistent_pubkey |-> Field(bytes, 2 * U64_SIZE + H160_SIZE, H264_SIZE)]]

\* deserialize(bytes): the fields read in the order of the struct; an error
\* if the bytes end early or are not all read.
deserialize(bytes) ==
    IF Len(bytes) # U64_SIZE + U64_SIZE + H160_SIZE + H264_SIZE
    THEN [ok |-> FALSE]
    ELSE [ok |-> TRUE,
          data |-> [started_at |-> from_le_bytes(Field(bytes, 0, U64_SIZE)),
                    payment_locktime |-> from_le_bytes(Field(bytes, U64_SIZE, U64_SIZE)),
                    secret_hash |-> Field(bytes, 2 * U64_SIZE, H160_SIZE),
                    persistent_pubkey |-> Field(bytes, 2 * U64_SIZE + H160_SIZE, H264_SIZE)]]

SerdeCalls == [fn : {"serde_swap_negotiation_data"}, data : SwapNegotiationData]

\* let bytes = serialize(&data); let deserialized = deserialize(bytes.as_slice())
SerdeSwapNegotiationData ==
    /\ call.fn = "serde_swap_negotiation_data"
    /\ ret = NoRet
    /\ ret' = LET bytes == serialize(call.data)
              IN [status |-> 200, bytes |-> bytes, deserialized |-> deserialize(bytes)]
    /\ UNCHANGED <<call, wsvars, regvars, swapvars, kickvars, dbvars, mtxvars, spawnvars,
                   peersvars>>

\* ---- MakerOrder::available_amount and match_order_and_request ----
\* (lp_ordermatch.rs; ordermatch_tests.rs holds their tests)

MaxMatches == 2     \* the most entries of a small matches map
MaxVol == 3         \* the volumes of a small order are 0..MaxVol
QuotScale == 2      \* the decimal places a quotient of two amounts is computed to

dec_add(a, b) ==
    LET s == IF a.scale > b.scale THEN a.scale ELSE b.scale
    IN Dec(a.int * Pow10(s - a.scale) + b.int * Pow10(s - b.scale), s)

dec_sub(a, b) == dec_add(a, Dec(0 - b.int, b.scale))

\* &a / &b of two BigDecimals, b not zero.
dec_quot(a, b) ==
    Dec((a.int * Pow10(QuotScale + b.scale)) \div (b.int * Pow10(a.scale)), QuotScale)

\* A MakerMatch: the base_amount of its request and of its reserved message.
MakerMatches ==
    [request_base_amount : {Dec(i, 0) : i \in 1..MaxVol},
     reserved_base_amount : {Dec(i, 0) : i \in 1..MaxVol}]

\* The maker order of test_maker_order_available_amount and its two matches.
TestOrderWithMatches ==
    [max_base_vol |-> Dec(10, 0),
     matches |-> <<[request_base_amount |-> Dec(5, 0), reserved_base_amount |-> Dec(5, 0)],
                   [request_base_amount |-> Dec(1, 0), reserved_base_amount |-> Dec(1, 0)]>>]

\* The matches map is modelled by the sequence its iterator yields.
MakerOrdersWithMatches ==
    UNION {[max_base_vol : {Dec(i, 0) : i \in 0..MaxVol}, matches : [1..n -> MakerMatches]]
              : n \in 0..MaxMatches}
        \cup {TestOrderWithMatches}

RECURSIVE fold_reserved(_, _, _)
fold_reserved(matches, i, reserved) ==
    IF i > Len(matches) THEN reserved
    ELSE fold_reserved(matches, i + 1, dec_add(reserved, matches[i].reserved_base_amount))

available_amount_of_requests(order) ==
    LET requested == [i \in 1..Len(order.matches) |->
                         [reserved_base_amount |-> order.matches[i].request_base_amount]]
    IN dec_sub(order.max_base_vol, fold_reserved(requested, 1, Dec(0, 0)))

available_amount(order) ==
    dec_sub(order.max_base_vol, fold_reserved(order.matches, 1, Dec(0, 0)))

AvailableCalls == [fn : {"available_amount"}, order : MakerOrdersWithMatches]

AvailableAmount ==
    /\ call.fn = "available_amount"
    /\ ret = NoRet
    /\ ret' = Returned(available_amount(call.order))
    /\ UNCHANGED <<call, wsvars, regvars, swapvars, kickvars, dbvars, mtxvars, spawnvars,
                   peersvars>>

\* The prices and amounts of the orders and requests: the small ones and
\* those of test_match_maker_order_and_taker_request.
OrderPrices == {Dec(5, 1), Dec(1, 0), Dec(2, 0)}
OrderAmounts == {Dec(i, 0) : i \in 1..MaxVol} \cup {Dec(5, 0), Dec(10, 0), Dec(20, 0)}

MakerOrders == [base : {"BASE"}, rel : {"REL"}, price : OrderPrices]

TakerRequests ==
    [base : {"BASE", "REL"}, rel : {"BASE", "REL"}, action : {"Buy", "Sell"},
     base_amount : OrderAmounts, rel_amount : OrderAmounts]

NotMatched == [matched |-> FALSE]
Matched(base_amount, rel_amount) == [matched |-> TRUE, base |-> base_amount, rel |-> rel_amount]

dec_ge(a, b) == ~dec_lt(a, b)

match_at_taker_price(maker, taker) ==
    IF taker.action = "Buy"
    THEN IF maker.base = taker.base /\ maker.rel = taker.rel
              /\ dec_ge(dec_quot(taker.rel_amount, taker.base_amount), maker.price)
         THEN Matched(taker.base_amount, taker.rel_amount)
         ELSE NotMatched
    ELSE IF maker.base = taker.rel /\ maker.rel = taker.base
              /\ dec_ge(dec_quot(taker.base_amount, taker.rel_amount), maker.price)
         THEN Matched(taker.rel_amount, taker.base_amount)
         ELSE NotMatched

match_order_and_request(maker, taker) ==
    IF taker.action = "Buy"
    THEN IF maker.base = taker.base /\ maker.rel = taker.rel
         THEN LET taker_price == dec_quot(taker.rel_amount, taker.base_amount)
              IN IF dec_ge(taker_price, maker.price)
                 THEN Matched(taker.base_amount, dec_mul(taker.base_amount, maker.price))
                 ELSE NotMatched
         ELSE NotMatched
    ELSE IF maker.base = taker.rel /\ maker.rel = taker.base
         THEN LET taker_price == dec_quot(taker.base_amount, taker.rel_amount)
                  base_amount == dec_quot(taker.base_amount, maker.price)
              IN IF dec_ge(taker_price, maker.price)
                 THEN Matched(base_amount, dec_mul(base_amount, maker.price))
                 ELSE NotMatched
         ELSE NotMatched

MatchCalls == [fn : {"match_order_and_request"}, maker : MakerOrders, taker : TakerRequests]

MatchOrderAndRequest ==
    /\ call.fn = "match_order_and_request"
    /\ ret = NoRet
    /\ ret' = Returned(match_order_and_request(call.maker, call.taker))
    /\ UNCHANGED <<call, wsvars, regvars, swapvars, kickvars, dbvars, mtxvars, spawnvars,
                   peersvars>>

Calls ==
    RecentCalls \cup LocktimeCalls \cup DexFeeCalls \cup BroadcastCalls \cup SerdeCalls
        \cup AvailableCalls \cup MatchCalls

CallsIdle ==
    /\ call = [fn |-> "none"]
    /\ ret = NoRet

CallsInit ==
    /\ call \in Calls
    /\ ret = NoRet

CallsNext ==
    \/ MyRecentSwaps
    \/ LpAtomicLocktime
    \/ DexFeeAmount
    \/ BroadcastMySwapStatus
    \/ SerdeSwapNegotiationData
    \/ AvailableAmount
    \/ MatchOrderAndRequest

--------------------------------------------------------------------------
(* common/wasm_indexed_db.rs: IndexedDbBuilder::init, the set of the open  *)
(* databases and the drop of an IndexedDb.  init is an async fn: it checks *)
(* the set, asks the browser to open the database, and awaits the events   *)
(* of the request; other futures run while it waits.                       *)

MaxInits == 3       \* the calls of init

DbNames == {"DB1", "DB2"}
DbVersions == {0, 1, 2}     \* 0: the version open_with_u32 refuses
InitIds == 1..MaxInits

NoInit == [pc |-> "new"]
NoInitCall == [db_name |-> "-"]

\* check_if_db_is_not_open
check_if_db_is_not_open(open, db_name) ==
    IF db_name \in open THEN "DbIsOpenAlready" ELSE "Ok"

\* tables_into_parts
tables_into_parts(has_tables) == IF has_tables THEN "Ok" ELSE "EmptyTableList"

\* cache_open_db
cache_open_db(open, db_name) == open \cup {db_name}

IndexedDb_drop_keeps(open, db_name) == open

\* impl Drop for IndexedDb: open_databases.remove(&self.db_name)
IndexedDb_drop(open, db_name) == open \ {db_name}

\* The names of the handles that are alive.
AliveNames == {db_inits[h].db_name : h \in db_handles}

DbInit ==
    /\ open_databases = {}
    /\ db_inits = [i \in InitIds |-> NoInit]
    /\ db_handles = {}
    /\ db_last = NoInitCall
    /\ dropped_since = [n \in DbNames |-> FALSE]

Failed(result) == [pc |-> "done", result |-> result]

\* The call of init up to its first await: the check of the set, the
\* tables, window.indexed_db() and open_with_u32.
InitCall(i, db_name, db_version, has_tables, supported) ==
    LET checked == check_if_db_is_not_open(open_databases, db_name)
        result == IF checked # "Ok" THEN checked
                  ELSE IF tables_into_parts(has_tables) # "Ok" THEN tables_into_parts(has_tables)
                  ELSE IF ~supported THEN "NotSupported"
                  ELSE IF db_version = 0 THEN "InvalidVersion"
                  ELSE "-"
    IN /\ db_inits[i] = NoInit
       /\ \A j \in 1..(i - 1) : db_inits[j] # NoInit
       /\ db_inits' = [db_inits EXCEPT ![i] =
                        IF result = "-"
                        THEN [pc |-> "opening", db_name |-> db_name, upgraded |-> FALSE,
                              after_drop |-> dropped_since[db_name]]
                        ELSE Failed(result)]
       /\ db_last' = [db_name |-> db_name,
                      db_version |-> db_version,
                      alive_at_call |-> db_name \in AliveNames,
                      after_drop |-> dropped_since[db_name],
                      requested |-> result = "-",
                      result |-> result]
       /\ UNCHANGED <<open_databases, db_handles, dropped_since>>
       /\ UNCHANGED <<wsvars, regvars, swapvars, kickvars, callvars, mtxvars, spawnvars,
                   peersvars>>

Init_call ==
    \E i \in InitIds, db_name \in DbNames, db_version \in DbVersions,
       has_tables \in BOOLEAN, supported \in BOOLEAN :
        InitCall(i, db_name, db_version, has_tables, supported)

\* DbOpenEvent::Failed
Init_Failed ==
    \E i \in InitIds :
        /\ db_inits[i].pc = "opening"
        /\ db_inits' = [db_inits EXCEPT ![i] = Failed("OpeningError")]
        /\ UNCHANGED <<open_databases, db_handles, db_last, dropped_since>>
        /\ UNCHANGED <<wsvars, regvars, swapvars, kickvars, callvars, mtxvars, spawnvars,
                   peersvars>>

\* DbOpenEvent::UpgradeNeeded: on_upgrade_needed takes the handlers and runs
\* them; one of them may fail, and a second event finds no handlers.
Init_UpgradeNeeded ==
    \E i \in InitIds, handlers_ok \in BOOLEAN :
        /\ db_inits[i].pc = "opening"
        /\ db_inits' =
             IF db_inits[i].upgraded THEN [db_inits EXCEPT ![i] = Failed("UnexpectedState")]
             ELSE IF ~handlers_ok THEN [db_inits EXCEPT ![i] = Failed("UpgradingError")]
             ELSE [db_inits EXCEPT ![i].upgraded = TRUE]
        /\ UNCHANGED <<open_databases, db_handles, db_last, dropped_since>>
        /\ UNCHANGED <<wsvars, regvars, swapvars, kickvars, callvars, mtxvars, spawnvars,
                   peersvars>>

Init_Success_caches_first ==
    \E i \in InitIds, db_ok \in BOOLEAN :
        /\ db_inits[i].pc = "opening"
        /\ open_databases' = cache_open_db(open_databases, db_inits[i].db_name)
        /\ IF db_ok
           THEN /\ db_handles' = db_handles \cup {i}
                /\ db_inits' = [db_inits EXCEPT ![i] =
                                 [pc |-> "done", result |-> "Ok",
                                  db_name |-> db_inits[i].db_name,
                                  after_drop |-> db_inits[i].after_drop]]
                /\ dropped_since' = [dropped_since EXCEPT ![db_inits[i].db_name] = FALSE]
           ELSE /\ db_inits' = [db_inits EXCEPT ![i] = Failed("UnexpectedState")]
                /\ UNCHANGED <<db_handles, dropped_since>>
        /\ UNCHANGED db_last
        /\ UNCHANGED <<wsvars, regvars, swapvars, kickvars, callvars, mtxvars, spawnvars,
                   peersvars>>

\* DbOpenEvent::Success: get_db_from_request, then cache_open_db and the
\* IndexedDb is returned.
Init_Success ==
    \E i \in InitIds, db_ok \in BOOLEAN :
        /\ db_inits[i].pc = "opening"
        /\ IF db_ok
           THEN /\ open_databases' = cache_open_db(open_databases, db_inits[i].db_name)
                /\ db_handles' = db_handles \cup {i}
                /\ db_inits' = [db_inits EXCEPT ![i] =
                                 [pc |-> "done", result |-> "Ok",
                                  db_name |-> db_inits[i].db_name,
                                  after_drop |-> db_inits[i].after_drop]]
                /\ dropped_since' = [dropped_since EXCEPT ![db_inits[i].db_name] = FALSE]
           ELSE /\ db_inits' = [db_inits EXCEPT ![i] = Failed("UnexpectedState")]
                /\ UNCHANGED <<open_databases, db_handles, dropped_since>>
        /\ UNCHANGED db_last
        /\ UNCHANGED <<wsvars, regvars, swapvars, kickvars, callvars, mtxvars, spawnvars,
                   peersvars>>

\* drop(db)
DropDb ==
    \E i \in db_handles :
        /\ db_handles' = db_handles \ {i}
        /\ open_databases' = IndexedDb_drop(open_databases, db_inits[i].db_name)
        /\ dropped_since' = [dropped_since EXCEPT ![db_inits[i].db_name] = TRUE]
        /\ UNCHANGED <<db_inits, db_last>>
        /\ UNCHANGED <<wsvars, regvars, swapvars, kickvars, callvars, mtxvars, spawnvars,
                   peersvars>>

DbNext ==
    \/ Init_call
    \/ Init_Failed
    \/ Init_UpgradeNeeded
    \/ Init_Success
    \/ DropDb

--------------------------------------------------------------------------
(* lp_swap.rs: the registry called from several threads.  Each of the four *)
(* functions takes the mutex of locked_amounts, works on the map and drops *)
(* the guard when it returns; the work on the map is modelled step by      *)
(* step.                                                                   *)

Threads == {"t1", "t2"}
ThreadUuids == {1, 2}
ThreadAmounts == {1, 2}

RegistryCalls ==
    [op : {"lock_amount"}, uuid : ThreadUuids, coin : Coins, amount : ThreadAmounts]
        \cup [op : {"unlock_amount"}, uuid : ThreadUuids, amount : ThreadAmounts]
        \cup [op : {"get_locked_amount"}, coin : Coins]
        \cup [op : {"get_locked_amount_by_other_swaps"}, uuid : ThreadUuids, coin : Coins]

IdleThread == [pc |-> "idle"]

IsFold(c) == c.op \in {"get_locked_amount", "get_locked_amount_by_other_swaps"}

can_acquire_always(owner) == TRUE

\* Mutex::lock: the guard is given when no thread holds one.
can_acquire(owner) == owner = "-"

ThreadsInit ==
    /\ mtx_owner = "-"
    /\ reg_threads = [t \in Threads |-> IdleThread]
    /\ mtx_between = NoMap

\* A thread calls one of the four functions and asks for the mutex.
ThreadCall(t) ==
    /\ reg_threads[t].pc = "idle"
    /\ \E c \in RegistryCalls :
         reg_threads' = [reg_threads EXCEPT ![t] = [pc |-> "waiting", call |-> c]]
    /\ UNCHANGED <<mtx_owner, mtx_between, regvars>>
    /\ UNCHANGED <<wsvars, swapvars, kickvars, callvars, dbvars, spawnvars,
                   peersvars>>

\* swap_ctx.locked_amounts.lock() returns the guard.  `seen` is history: the
\* map as the thread found it.
ThreadLock(t) ==
    /\ reg_threads[t].pc = "waiting"
    /\ can_acquire(mtx_owner)
    /\ mtx_owner' = t
    /\ reg_threads' = [reg_threads EXCEPT ![t] =
                        [pc |-> "holding",
                         call |-> reg_threads[t].call,
                         seen |-> locked_amounts,
                         entry |-> "-",
                         todo |-> IF IsFold(reg_threads[t].call) THEN DOMAIN locked_amounts ELSE {},
                         total |-> 0]]
    /\ UNCHANGED <<mtx_between, regvars>>
    /\ UNCHANGED <<wsvars, swapvars, kickvars, callvars, dbvars, spawnvars,
                   peersvars>>

Finished(th) == [th EXCEPT !.pc = "finished"]

\* locked.insert(uuid, LockedAmount { coin, amount })
StepLock(t) ==
    LET th == reg_threads[t] IN
    /\ th.pc = "holding"
    /\ th.call.op = "lock_amount"
    /\ locked_amounts' = MapInsert(locked_amounts, th.call.uuid,
                                   LockedAmount(th.call.coin, th.call.amount))
    /\ reg_threads' = [reg_threads EXCEPT ![t] = Finished(th)]
    /\ UNCHANGED <<mtx_owner, mtx_between, reg_last>>
    /\ UNCHANGED <<wsvars, swapvars, kickvars, callvars, dbvars, spawnvars,
                   peersvars>>

\* locked.entry(uuid): Occupied or Vacant; then, of an occupied entry, the
\* comparison and e.remove() or entry.amount -= amount.
StepUnlock(t) ==
    LET th == reg_threads[t]
        uuid == th.call.uuid
    IN
    /\ th.pc = "holding"
    /\ th.call.op = "unlock_amount"
    /\ IF th.entry = "-"
       THEN /\ reg_threads' = [reg_threads EXCEPT ![t].entry =
                                IF uuid \in DOMAIN locked_amounts THEN "Occupied" ELSE "Vacant"]
            /\ UNCHANGED locked_amounts
       ELSE /\ reg_threads' = [reg_threads EXCEPT ![t] = Finished(th)]
            /\ locked_amounts' =
                 IF th.entry = "Vacant" \/ uuid \notin DOMAIN locked_amounts THEN locked_amounts
                 ELSE IF locked_amounts[uuid].amount <= th.call.amount
                      THEN MapRemove(locked_amounts, uuid)
                 ELSE [locked_amounts EXCEPT ![uuid].amount = @ - th.call.amount]
    /\ UNCHANGED <<mtx_owner, mtx_between, reg_last>>
    /\ UNCHANGED <<wsvars, swapvars, kickvars, callvars, dbvars, spawnvars,
                   peersvars>>

\* Whether the fold of the call adds the entry of key k.
Counts(c, map, k) ==
    /\ k \in DOMAIN map
    /\ map[k].coin = c.coin
    /\ c.op = "get_locked_amount_by_other_swaps" => k # c.uuid

\* locked.iter().fold(0, ...): one entry a step, in the order the map
\* yields them.
StepFold(t) ==
    LET th == reg_threads[t] IN
    /\ th.pc = "holding"
    /\ IsFold(th.call)
    /\ IF th.todo = {}
       THEN reg_threads' = [reg_threads EXCEPT ![t] = Finished(th)]
       ELSE \E k \in th.todo :
              reg_threads' = [reg_threads EXCEPT
                  ![t].todo = th.todo \ {k},
                  ![t].total = IF Counts(th.call, locked_amounts, k)
                               THEN th.total + locked_amounts[k].amount ELSE th.total]
    /\ UNCHANGED <<mtx_owner, mtx_between, regvars>>
    /\ UNCHANGED <<wsvars, swapvars, kickvars, callvars, dbvars, spawnvars,
                   peersvars>>

\* The function returns and its guard is dropped.
ThreadReturn(t) ==
    /\ reg_threads[t].pc = "finished"
    /\ mtx_owner' = "-"
    /\ mtx_between' = locked_amounts
    /\ reg_threads' = [reg_threads EXCEPT ![t] = IdleThread]
    /\ UNCHANGED regvars
    /\ UNCHANGED <<wsvars, swapvars, kickvars, callvars, dbvars, spawnvars,
                   peersvars>>

ThreadsNext ==
    \E t \in Threads :
        \/ ThreadCall(t)
        \/ ThreadLock(t)
        \/ StepLock(t)
        \/ StepUnlock(t)
        \/ StepFold(t)
        \/ ThreadReturn(t)

--------------------------------------------------------------------------
(* wasm_ws.rs: spawn_ws_transport itself.  init_ws comes first; the        *)
(* channels are made and the task is spawned only after it has succeeded.  *)

\* init_ws: WebSocket::new(url) refuses the url, or the socket is there with
\* its four callbacks set.
init_ws(url_ok) == IF url_ok THEN [ok |-> TRUE] ELSE [ok |-> FALSE]

\* Before the call, and after a call that failed: no socket, no channels,
\* no task.
NoTransport ==
    [state |-> "NotSpawned", out_senders |-> 0, in_rx_alive |-> FALSE, shutdown |-> "none"]

spawn_ws_transport_task_first(url_ok) ==
    IF init_ws(url_ok).ok
    THEN [result |-> "Ok", state |-> "Connecting", out_senders |-> 1,
          in_rx_alive |-> TRUE, shutdown |-> "pending"]
    ELSE [result |-> "Err", state |-> "Connecting", out_senders |-> 0,
          in_rx_alive |-> FALSE, shutdown |-> "pending"]

\* spawn_ws_transport: its result, the state of the task it spawned, and the
\* ends of the channels it handed to the user.
spawn_ws_transport(url_ok) ==
    IF ~init_ws(url_ok).ok
    THEN [result |-> "Err"] @@ NoTransport
    ELSE [result |-> "Ok", state |-> "Connecting", out_senders |-> 1,
          in_rx_alive |-> TRUE, shutdown |-> "pending"]

SpawnInit ==
    /\ spawned = "-"
    /\ state = NoTransport.state
    /\ out_senders = NoTransport.out_senders
    /\ in_rx_alive = NoTransport.in_rx_alive
    /\ shutdown = NoTransport.shutdown
    /\ outgoing = <<>>
    /\ transport = <<>>
    /\ incoming = <<>>
    /\ received = <<>>
    /\ notified = <<>>
    /\ ws_sent = <<>>
    /\ ws_send_failed = <<>>
    /\ ws_close_calls = 0
    /\ ws_close_codes = <<>>
    /\ n_transport = 0
    /\ close_fired = FALSE
    /\ enq_state = <<>>
    /\ deq_state = <<>>
    /\ last = [ev |-> NoEvent, from |-> "Connecting"]
    /\ cancelled = FALSE

SpawnWsTransport ==
    /\ spawned = "-"
    /\ \E url_ok \in BOOLEAN :
         LET r == spawn_ws_transport(url_ok) IN
         /\ spawned' = r.result
         /\ state' = r.state
         /\ out_senders' = r.out_senders
         /\ in_rx_alive' = r.in_rx_alive
         /\ shutdown' = r.shutdown
    /\ UNCHANGED <<outgoing, transport, incoming, received, notified, ws_sent,
                   ws_send_failed, ws_close_calls, ws_close_codes, n_transport,
                   close_fired, enq_state, deq_state, last, cancelled>>
    /\ UNCHANGED <<regvars, swapvars, kickvars, callvars, dbvars, mtxvars,
                   peersvars>>

\* The task, the socket's callbacks and the user's ends of the channels
\* exist once spawn_ws_transport has made them.
TaskSpawned == state # "NotSpawned"

SpawnNext ==
    \/ SpawnWsTransport
    \/ TaskSpawned /\ UserSend
    \/ TaskSpawned /\ UserCloneSender
    \/ TaskSpawned /\ UserDropSender
    \/ TaskSpawned /\ UserDropReceiver
    \/ TaskSpawned /\ UserRecv
    \/ TaskSpawned /\ ShutdownTask
    \/ TaskSpawned /\ TransportEvent
    \/ TaskSpawned /\ CloseReply
    \/ TaskSpawned /\ FsmStep

--------------------------------------------------------------------------
(* mm2_libp2p/src/peers_exchange.rs: PeersExchange, the list of the known  *)
(* peers and the address book of its request-response behaviour.  The      *)
(* events arrive from the swarm: add_peer_addresses from the owner of the  *)
(* behaviour, inject_event with a request, a response or a failure, and    *)
(* poll with the ticks of maintain_peers_interval that are due.            *)

MaxKnownPeers == 1      \* MAX_PEERS (100 in peers_exchange.rs), scaled
MaxPeerIds == 3         \* the peers of the network are 1..MaxPeerIds

PeerIds == 1..MaxPeerIds
Multiaddrs == {"a1", "a2"}
AddressLists == {<<>>, <<"a1">>, <<"a1", "a2">>}
PollTicks == {1, 2}
ResponseSizes == {0, 1, 2}
ResponseAddressLists == {<<>>, <<"a1">>}

SeqRange(seq) == {seq[i] : i \in DOMAIN seq}

\* Vec::contains
contains(seq, x) == \E i \in DOMAIN seq : seq[i] = x

\* PeersExchange as far as the events change it: known_peers and the
\* addresses of request_response.
Px(known, book) == [known_peers |-> known, address_book |-> book]

\* forget_peer_addresses: remove_address for each address of the peer.
forget_peer_addresses(book, peer) == [book EXCEPT ![peer] = {}]

\* forget_peer
forget_peer(px, peer) ==
    Px(SelectSeq(px.known_peers, LAMBDA known_peer : known_peer # peer),
       forget_peer_addresses(px.address_book, peer))

\* (mutant: the peer is pushed without asking whether it is known)
add_peer_addresses_pushes(px, peer, addresses) ==
    Px(IF addresses # <<>> THEN Append(px.known_peers, peer) ELSE px.known_peers,
       [px.address_book EXCEPT ![peer] = @ \cup SeqRange(addresses)])

\* add_peer_addresses
add_peer_addresses(px, peer, addresses) ==
    Px(IF ~contains(px.known_peers, peer) /\ addresses # <<>>
       THEN Append(px.known_peers, peer)
       ELSE px.known_peers,
       [px.address_book EXCEPT ![peer] = @ \cup SeqRange(addresses)])

\* SliceRandom::shuffle: every order of the elements may come out.
shuffle(seq) == {[i \in 1..Len(seq) |-> seq[f[i]]] : f \in Permutations(1..Len(seq))}

\* drain(..n) and forget_peer_addresses for each drained peer.
RECURSIVE forget_all(_, _)
forget_all(book, removed_peers) ==
    IF removed_peers = <<>> THEN book
    ELSE forget_all(forget_peer_addresses(book, Head(removed_peers)), Tail(removed_peers))

\* request_known_peers_from_random_peer: the peer the request is sent to,
\* 0 when no peer is known.
request_known_peers_from_random_peer(known) ==
    IF known = <<>> THEN {0} ELSE SeqRange(known)

\* (mutant: the drained peers are dropped from the list only)
maintain_known_peers_keeps_addresses(px) ==
    IF Len(px.known_peers) > MaxKnownPeers
    THEN LET to_remove_num == Len(px.known_peers) - MaxKnownPeers
         IN {[px |-> Px(SubSeq(shuffled, to_remove_num + 1, Len(shuffled)), px.address_book),
              removed_peers |-> SubSeq(shuffled, 1, to_remove_num)]
                : shuffled \in shuffle(px.known_peers)}
    ELSE {[px |-> px, removed_peers |-> <<>>]}

\* maintain_known_peers up to its request: the outcomes of the shuffle.
maintain_known_peers(px) ==
    IF Len(px.known_peers) > MaxKnownPeers
    THEN LET to_remove_num == Len(px.known_peers) - MaxKnownPeers
         IN {LET removed_peers == SubSeq(shuffled, 1, to_remove_num)
             IN [px |-> Px(SubSeq(shuffled, to_remove_num + 1, Len(shuffled)),
                           forget_all(px.address_book, removed_peers)),
                 removed_peers |-> removed_peers]
                : shuffled \in shuffle(px.known_peers)}
    ELSE {[px |-> px, removed_peers |-> <<>>]}

\* get_random_known_peers: choose_multiple picks num of the known peers, all
\* of them when fewer are known; each with its addresses.
get_random_known_peers(px, num) ==
    LET known == SeqRange(px.known_peers)
        amount == IF num < Cardinality(known) THEN num ELSE Cardinality(known)
    IN {[peer \in chosen |-> px.address_book[peer]]
           : chosen \in {c \in SUBSET known : Cardinality(c) = amount}}

\* The KnownPeers responses: a map from some peers to their addresses.
KnownPeersResponses ==
    UNION {[chosen -> ResponseAddressLists]
              : chosen \in {c \in SUBSET PeerIds : Cardinality(c) \in ResponseSizes}}

\* The orders in which the iterator of a HashMap may yield its keys.
IterOrders(keys) ==
    {order \in [1..Cardinality(keys) -> keys] :
        \A i, j \in 1..Cardinality(keys) : order[i] = order[j] => i = j}

\* peers.into_iter().for_each(|(peer, addresses)| add_peer_addresses(..))
RECURSIVE for_each_add(_, _, _)
for_each_add(px, peers, order) ==
    IF order = <<>> THEN px
    ELSE for_each_add(add_peer_addresses(px, Head(order), peers[Head(order)]),
                      peers, Tail(order))

NoPeersEvent == [op |-> "none"]

PeersInit ==
    /\ known_peers = <<>>
    /\ address_book = [peer \in PeerIds |-> {}]
    /\ peers_last = NoPeersEvent

ThisPx == Px(known_peers, address_book)

AddPeerAddresses ==
    \E peer \in PeerIds, addresses \in AddressLists :
        LET after == add_peer_addresses(ThisPx, peer, addresses)
        IN /\ known_peers' = after.known_peers
           /\ address_book' = after.address_book
           /\ peers_last' = [op |-> "add_peer_addresses", before |-> ThisPx,
                             arrived |-> (peer :> addresses)]
           /\ UNCHANGED <<wsvars, regvars, swapvars, kickvars, callvars, dbvars,
                          mtxvars, spawnvars>>

\* inject_event, RequestResponseMessage::Request
InjectRequest ==
    \E num \in 0..MaxKnownPeers :
        \E response \in get_random_known_peers(ThisPx, num) :
            /\ peers_last' = [op |-> "GetKnownPeers", num |-> num,
                              response |-> response]
            /\ UNCHANGED <<known_peers, address_book>>
            /\ UNCHANGED <<wsvars, regvars, swapvars, kickvars, callvars, dbvars,
                           mtxvars, spawnvars>>

\* inject_event, RequestResponseMessage::Response
InjectResponse ==
    \E peers \in KnownPeersResponses :
        \E order \in IterOrders(DOMAIN peers) :
            LET after == for_each_add(ThisPx, peers, order)
            IN /\ known_peers' = after.known_peers
               /\ address_book' = after.address_book
               /\ peers_last' = [op |-> "KnownPeers", arrived |-> peers]
               /\ UNCHANGED <<wsvars, regvars, swapvars, kickvars, callvars, dbvars,
                              mtxvars, spawnvars>>

\* inject_event, RequestResponseEvent::OutboundFailure
InjectOutboundFailure ==
    \E peer \in PeerIds :
        LET after == forget_peer(ThisPx, peer)
        IN /\ known_peers' = after.known_peers
           /\ address_book' = after.address_book
           /\ peers_last' = [op |-> "OutboundFailure", peer |-> peer]
           /\ UNCHANGED <<wsvars, regvars, swapvars, kickvars, callvars, dbvars,
                          mtxvars, spawnvars>>

\* inject_event, RequestResponseEvent::InboundFailure
InjectInboundFailure ==
    \E peer \in PeerIds :
        LET after == forget_peer(ThisPx, peer)
        IN /\ known_peers' = after.known_peers
           /\ address_book' = after.address_book
           /\ peers_last' = [op |-> "InboundFailure", peer |-> peer]
           /\ UNCHANGED <<wsvars, regvars, swapvars, kickvars, callvars, dbvars,
                          mtxvars, spawnvars>>

\* poll: maintain_known_peers once for each tick of the interval that is
\* due; the queue of events is always empty, so poll returns Pending.
\* peers_last keeps the peers the runs removed and the peer the last run
\* sent its request to.
Poll ==
    \E ticks \in PollTicks :
        \E first \in maintain_known_peers(ThisPx) :
            \E run \in IF ticks = 1 THEN {first}
                       ELSE {[px |-> second.px,
                              removed_peers |-> first.removed_peers \o second.removed_peers]
                                : second \in maintain_known_peers(first.px)} :
                \E request_to \in request_known_peers_from_random_peer(run.px.known_peers) :
                    /\ known_peers' = run.px.known_peers
                    /\ address_book' = run.px.address_book
                    /\ peers_last' = [op |-> "maintain_known_peers", ticks |-> ticks,
                                       removed_peers |-> run.removed_peers,
                                       request_to |-> request_to]
                    /\ UNCHANGED <<wsvars, regvars, swapvars, kickvars, callvars, dbvars,
                                   mtxvars, spawnvars>>

PeersNext ==
    \/ AddPeerAddresses
    \/ InjectRequest
    \/ InjectResponse
    \/ InjectOutboundFailure
    \/ InjectInboundFailure
    \/ Poll

--------------------------------------------------------------------------
(* The specifications.                                                     *)

Init ==
    /\ WsInit /\ RegInit /\ SwapInit /\ KickIdle /\ CallsIdle /\ DbInit /\ ThreadsInit
    /\ PeersInit
    /\ spawned = "Ok"

SpecWs == Init /\ [][WsNext]_vars

\* The executor polls a woken task, so the transport's task and the
\* shutdown future run when they can; the socket answers close() with its
\* close event.
FairSpecWs ==
    /\ SpecWs
    /\ WF_vars(FsmStep)
    /\ WF_vars(ShutdownTask)
    /\ WF_vars(CloseReply)

SpecReg == Init /\ [][RegNext]_vars

SpecSwap == Init /\ [][SwapNext]_vars

KickStartInit ==
    /\ WsInit /\ RegInit /\ SwapInit /\ KickInit /\ CallsIdle /\ DbInit /\ ThreadsInit
    /\ PeersInit
    /\ spawned = "Ok"

SpecKick == KickStartInit /\ [][KickNext]_vars

CallsStartInit ==
    /\ WsInit /\ RegInit /\ SwapInit /\ KickIdle /\ CallsInit /\ DbInit /\ ThreadsInit
    /\ PeersInit
    /\ spawned = "Ok"

SpecCalls == CallsStartInit /\ [][CallsNext]_vars

SpecDb == Init /\ [][DbNext]_vars

SpecRegThreads == Init /\ [][ThreadsNext]_vars

SpawnStartInit ==
    /\ SpawnInit /\ RegInit /\ SwapInit /\ KickIdle /\ CallsIdle /\ DbInit /\ ThreadsInit
    /\ PeersInit

SpecSpawn == SpawnStartInit /\ [][SpawnNext]_vars

SpecPeers == Init /\ [][PeersNext]_vars

--------------------------------------------------------------------------
(* Helpers of the properties.                                              *)

Range(seq) == {seq[i] : i \in DOMAIN seq}

NoDuplicates(seq) == \A i, j \in DOMAIN seq : seq[i] = seq[j] => i = j

\* The place in `notified` of the transport error handled in Connecting or
\* Open: a transport error (its description is the callback's, not 0) with
\* no Closing before it.
IsObservedError(i) ==
    /\ notified[i].type = "Error"
    /\ notified[i].reason = "UnderlyingError"
    /\ notified[i].arg # 0
    /\ \A j \in 1..(i - 1) : notified[j] # EvClosing

\* Whether seq `a` is `b` with some of its elements left out.
RECURSIVE IsSubSeq(_, _)
IsSubSeq(a, b) ==
    IF a = <<>> THEN TRUE
    ELSE IF b = <<>> THEN FALSE
    ELSE IF Head(a) = Head(b) THEN IsSubSeq(Tail(a), Tail(b))
    ELSE IsSubSeq(a, Tail(b))

--------------------------------------------------------------------------
(* The transport's properties.                                             *)

\* C1: the state changes only along the declared edges Connecting -> {Open,
\* Closing, Closed}, Open -> {Closing, Closed}, Closing -> Closed, whatever
\* the events; none leads back to Connecting or Open, and Closed is final.
C1_DeclaredEdgesOnly ==
    [][/\ state' # state => <<state, state'>> \in TransitionFrom
       /\ state = "Closed" => state' = "Closed"]_vars

\* C1's witness: a connection that went Connecting, Open, Closing, Closed.
C1_Witness ==
    /\ state = "Closed"
    /\ EvEstablish \in Range(notified)
    /\ EvClosing \in Range(notified)

C3_ConnectingBouncesOutgoing ==
    [][(state = "Connecting" /\ deq_state' # deq_state) =>
          LET bounce == EvIsNotConnected(Head(outgoing)) IN
          /\ notified' = Append(notified, bounce)
          /\ (in_rx_alive /\ Len(incoming) < IncomingCap) =>
                incoming' = Append(incoming, bounce)
          /\ ws_sent' = ws_sent
          /\ ws_close_calls' = ws_close_calls
          /\ state' = "Connecting"]_vars

\* C3's witness: still Connecting, and the user has received the bounce of
\* message 1.
C3_Witness ==
    /\ state = "Connecting"
    /\ received = <<EvIsNotConnected(1)>>
    /\ ws_sent = <<>>
    /\ ws_close_calls = 0

\* C4: while the FSM is in Open, the messages enqueued while it was in Open
\* have been passed to the socket, or still wait in the channel, in exactly
\* the order they were enqueued, and no message was passed to it twice.
C4_SentInEnqueueOrder ==
    /\ NoDuplicates(ws_sent)
    /\ state = "Open" =>
          LET InOpen(m) == enq_state[m] = "Open"
              ids == [i \in 1..Len(enq_state) |-> i]
          IN SelectSeq(ws_sent \o outgoing, InOpen) = SelectSeq(ids, InOpen)

\* C4's witness: two messages enqueued in Open and both sent, in order.
C4_Witness ==
    /\ state = "Open"
    /\ enq_state = <<"Open", "Open">>
    /\ ws_sent = <<1, 2>>

\* C5: the shutdown signal exists only once every outgoing sender and the
\* incoming receiver are dropped; the FSM handles UserSideClosed only then,
\* and while one of them is alive the socket is closed only for a
\* transport error.
C5_ShutdownNeedsBothDropped ==
    /\ shutdown # "pending" => (out_senders = 0 /\ ~in_rx_alive)
    /\ last.ev.kind = "UserSideClosed" => (out_senders = 0 /\ ~in_rx_alive)
    /\ (ws_close_calls > 0 /\ ~(out_senders = 0 /\ ~in_rx_alive)) =>
          \E i \in DOMAIN notified : IsObservedError(i)

\* C5's witness: both ends dropped, UserSideClosed handled in Open, Closing.
C5_Witness ==
    /\ last = [ev |-> StEv("UserSideClosed", 0), from |-> "Open"]
    /\ state = "Closing"
    /\ ws_close_calls = 1

\* C6 as stated (its safety half): a transport whose user dropped both ends
\* while it was in Connecting or Open never reaches Closed without having
\* passed through Closing.
C6_ClosedOnlyThroughClosing ==
    (cancelled /\ state = "Closed") => EvClosing \in Range(notified)

\* C6 as amended: once the user has dropped both ends of a transport in
\* Connecting or Open, the transport reaches Closed (the socket answering
\* close() with its close event); it passes through Closing on the way,
\* unless a transport Close event is handled first, in Connecting or Open,
\* which leads to Closed directly.
C6_CancelledReachesClosed ==
    /\ [](cancelled ~> state = "Closed")
    /\ []((cancelled /\ state = "Closed" /\ EvClosing \notin Range(notified)) =>
             (last.ev.kind = "Close" /\ last.from \in {"Connecting", "Open"}))
    /\ []((cancelled /\ last.ev.kind = "UserSideClosed") =>
             EvClosing \in Range(notified))

\* C6's witness: cancelled in Open, then Closing, then Closed.
C6_Witness ==
    /\ cancelled
    /\ state = "Closed"
    /\ last = [ev |-> StEv("Close", 0), from |-> "Closing"]
    /\ EvEstablish \in Range(notified)

\* C7 as stated: from the transport error handled in Connecting or Open on,
\* the events are exactly Error(UnderlyingError), Closing, Closed: nothing
\* else follows the error but Closing, and nothing else follows Closing
\* but Closed.
C7_ErrorClosingClosedOnly ==
    \A i \in DOMAIN notified :
        IsObservedError(i) =>
            /\ Len(notified) > i
            /\ notified[i + 1] = EvClosing
            /\ Len(notified) > i + 1 =>
                  (notified[i + 2] = EvClosed /\ Len(notified) = i + 2)

\* C7 as amended: the transport error handled in Connecting or Open is
\* emitted as Error(UnderlyingError), immediately followed by Closing;
\* Closed, once emitted, is the last event; between Closing and Closed only
\* Error events are emitted (outgoing messages bounced as IsNotConnected,
\* later transport errors), never Establish or Incoming.  The user receives
\* the emitted events in that order, less those notify_listener discarded.
C7_ErrorThenClosingThenClosed ==
    /\ \A i \in DOMAIN notified :
          IsObservedError(i) =>
              /\ Len(notified) > i
              /\ notified[i + 1] = EvClosing
              /\ state \in {"Closing", "Closed"}
              /\ \A j \in (i + 2)..Len(notified) :
                    /\ notified[j].type \in {"Error", "Closed"}
                    /\ notified[j].type = "Closed" => j = Len(notified)
              /\ state = "Closed" => notified[Len(notified)] = EvClosed
    /\ in_rx_alive => IsSubSeq(received \o incoming, notified)

\* C7's witness: the user received Error(UnderlyingError), Closing, Closed.
C7_Witness ==
    /\ Len(received) = 3
    /\ received[1].reason = "UnderlyingError"
    /\ received[1].arg # 0
    /\ received[2] = EvClosing
    /\ received[3] = EvClosed

\* Whether this step is the FSM taking the head of the transport channel.
TakesTransport == transport # <<>> /\ transport' = Tail(transport)

\* Whether this step is the FSM taking the head of the outgoing channel.
TakesOutgoing == deq_state' # deq_state

\* Whether this step is the FSM taking the user-shutdown signal.
TakesShutdown == shutdown = "ready" /\ shutdown' = "taken"

\* How many times event `ev` is in `notified`.
TimesNotified(ev) == Cardinality({i \in DOMAIN notified : notified[i] = ev})

\* The Incoming events of `notified`, in order.
IncomingNotified == SelectSeq(notified, LAMBDA ev : ev.type = "Incoming")

\* C16: on entering Open the FSM emits Establish before it passes any
\* outgoing message to the socket and before it emits any Incoming; after
\* that each transport Incoming it handles in Open is emitted as Incoming
\* with the same JSON, so the Incoming events are emitted in arrival order.
C16_EstablishFirstThenIncomingInOrder ==
    /\ [][/\ (state # "Open" /\ state' = "Open") =>
              (notified' = Append(notified, EvEstablish) /\ ws_sent' = ws_sent)
          /\ (ws_sent' # ws_sent \/ IncomingNotified' # IncomingNotified) =>
              EvEstablish \in Range(notified)
          /\ (state = "Open" /\ TakesTransport
                 /\ Head(transport).type = "Incoming") =>
              (notified' = Append(notified, EvIncoming(Head(transport).arg))
                 /\ state' = "Open")]_vars
    /\ [](\A i, j \in DOMAIN IncomingNotified :
             i < j => IncomingNotified[i].arg < IncomingNotified[j].arg)

\* C16's witness: Establish, then the two Incoming events in the order the
\* socket produced them.
C16_Witness ==
    /\ state = "Open"
    /\ notified = <<EvEstablish, EvIncoming(2), EvIncoming(3)>>

\* C17: in Open, when send_with_str fails for an outgoing message, the FSM
\* emits an Error event, does not close the socket and stays in Open; every
\* message it takes in Open, also after a failure, is passed to the socket.
C17_SendFailureKeepsOpen ==
    /\ [][ws_send_failed' # ws_send_failed =>
             /\ state = "Open" /\ state' = "Open"
             /\ ws_send_failed' = Append(ws_send_failed, Head(outgoing))
             /\ ws_sent' = Append(ws_sent, Head(outgoing))
             /\ Len(notified') = Len(notified) + 1
             /\ notified'[Len(notified')].type = "Error"
             /\ ws_close_calls' = ws_close_calls]_vars
    /\ [](\A m \in DOMAIN deq_state :
             deq_state[m] = "Open" => m \in Range(ws_sent))

\* C17's witness: the send of message 1 failed, the FSM is still Open and
\* has passed message 2 to the socket since.
C17_Witness ==
    /\ state = "Open"
    /\ ws_send_failed = <<1>>
    /\ ws_sent = <<1, 2>>
    /\ notified = <<EvEstablish, EvUnderlyingError(0)>>

\* C18: each time the FSM enters Closing it emits Closing and invokes close
\* on the socket with code 1000; over the life of a connection Closing is
\* emitted at most once and close is invoked at most once.
C18_ClosingOnceCloseOnce ==
    /\ [][(state # "Closing" /\ state' = "Closing") =>
             /\ notified' # <<>> /\ notified'[Len(notified')] = EvClosing
             /\ TimesNotified(EvClosing)' = TimesNotified(EvClosing) + 1
             /\ ws_close_codes' = Append(ws_close_codes, 1000)]_vars
    /\ [](/\ TimesNotified(EvClosing) <= 1
          /\ Len(ws_close_codes) <= 1
          /\ ws_close_calls = Len(ws_close_codes)
          /\ \A i \in DOMAIN ws_close_codes : ws_close_codes[i] = 1000)

\* C18's witness: Closing was entered on a transport error, and the
\* UserSideClosed that followed was handled there without a second close.
C18_Witness ==
    /\ state = "Closing"
    /\ last = [ev |-> StEv("UserSideClosed", 0), from |-> "Closing"]
    /\ ws_close_codes = <<1000>>
    /\ TimesNotified(EvClosing) = 1

\* C19: in Closing only a transport Close changes the state, to Closed;
\* UserSideClosed is ignored, a transport Error is emitted as
\* Error(UnderlyingError) without a state change, and an outgoing message is
\* bounced as Error{IsNotConnected, outgoing} without being sent.
C19_ClosingWaitsForClose ==
    [][state = "Closing" =>
         /\ state' # state =>
               (state' = "Closed" /\ TakesTransport /\ Head(transport).type = "Close")
         /\ (TakesTransport /\ Head(transport).type = "Close") => state' = "Closed"
         /\ TakesShutdown =>
               /\ state' = state /\ notified' = notified /\ incoming' = incoming
               /\ ws_sent' = ws_sent /\ ws_close_calls' = ws_close_calls
         /\ (TakesTransport /\ Head(transport).type = "Error") =>
               /\ state' = state
               /\ notified' = Append(notified, EvUnderlyingError(Head(transport).arg))
               /\ ws_sent' = ws_sent /\ ws_close_calls' = ws_close_calls
         /\ TakesOutgoing =>
               /\ state' = state
               /\ notified' = Append(notified, EvIsNotConnected(Head(outgoing)))
               /\ ws_sent' = ws_sent /\ ws_close_calls' = ws_close_calls]_vars

\* C19's witness: in Closing after a first error, message 1 was bounced and
\* a second error emitted, and the state is still Closing.
C19_Witness ==
    /\ state = "Closing"
    /\ notified = <<EvUnderlyingError(1), EvClosing,
                    EvIsNotConnected(1), EvUnderlyingError(2)>>
    /\ ws_sent = <<>>
    /\ ws_close_calls = 1

\* C20: Closed is emitted exactly once, on entering the Closed state, and is
\* the last event: once Closed the task has exited, nothing more is emitted
\* and nothing is done with the socket.
C20_ClosedOnceAndLast ==
    /\ [][/\ (state # "Closed" /\ state' = "Closed") =>
              /\ notified' # <<>> /\ notified'[Len(notified')] = EvClosed
              /\ ws_sent' = ws_sent /\ ws_close_calls' = ws_close_calls
          /\ state = "Closed" =>
              /\ state' = "Closed" /\ notified' = notified
              /\ ws_sent' = ws_sent /\ ws_close_calls' = ws_close_calls
              /\ ~TakesOutgoing /\ ~TakesTransport /\ ~TakesShutdown
              /\ IsSubSeq(incoming', incoming)]_vars
    /\ [](/\ TimesNotified(EvClosed) = (IF state = "Closed" THEN 1 ELSE 0)
          /\ state = "Closed" => notified[Len(notified)] = EvClosed)

\* C20's witness: the user has received Establish and then Closed as the
\* last event of a connection the socket closed.
C20_Witness ==
    /\ state = "Closed"
    /\ received = <<EvEstablish, EvClosed>>
    /\ incoming = <<>>

--------------------------------------------------------------------------
(* The registry's properties.                                              *)

\* The sum of the amounts of the entries of `map` whose coin is `coin`,
\* counted amount by amount: a times the number of entries that hold a.
RECURSIVE SumUpTo(_, _, _)
SumUpTo(map, coin, a) ==
    IF a = 0 THEN 0
    ELSE a * Cardinality({k \in DOMAIN map :
                             map[k].coin = coin /\ map[k].amount = a})
         + SumUpTo(map, coin, a - 1)

SumOfEntries(map, coin) == SumUpTo(map, coin, MaxAmount)

\* C8: after any sequence of lock and unlock operations, get_locked_amount
\* of a coin is the sum of the amounts of the entries stored with that coin,
\* and that is what a call of it returns.
C8_RegistryConservation ==
    /\ \A coin \in Coins :
          get_locked_amount(locked_amounts, coin) = SumOfEntries(locked_amounts, coin)
    /\ reg_last.op = "get_locked_amount" =>
          reg_last.result = SumOfEntries(locked_amounts, reg_last.coin)

\* C8's witness: two swaps hold KMD, one of them partly unlocked, and
\* get_locked_amount("KMD") returned their sum.
C8_Witness ==
    /\ reg_last.op = "get_locked_amount"
    /\ reg_last.coin = "KMD"
    /\ DOMAIN locked_amounts = {1, 2}
    /\ locked_amounts[1] = LockedAmount("KMD", 1)
    /\ locked_amounts[2] = LockedAmount("KMD", 3)
    /\ reg_last.result = 4

\* C9 as stated: a lock for a uuid that already has an entry panics and
\* leaves that entry as it was; it is never replaced.
C9_SecondLockNeverReplaces ==
    (reg_last.op = "lock_amount" /\ reg_last.uuid \in DOMAIN reg_last.before) =>
        locked_amounts[reg_last.uuid] = reg_last.before[reg_last.uuid]

\* C9 as amended: lock(uuid, coin, amount) stores the entry (coin, amount)
\* under uuid and never panics; when uuid already has an entry, that entry
\* is replaced by the new one.  The other entries are untouched.
C9_LockInsertsOrReplaces ==
    reg_last.op = "lock_amount" =>
        /\ DOMAIN locked_amounts = DOMAIN reg_last.before \cup {reg_last.uuid}
        /\ locked_amounts[reg_last.uuid] = LockedAmount(reg_last.coin, reg_last.amount)
        /\ \A u \in DOMAIN reg_last.before \ {reg_last.uuid} :
              locked_amounts[u] = reg_last.before[u]

\* C9's witness: a second lock for uuid 1 replaced its entry by another.
C9_Witness ==
    /\ reg_last.op = "lock_amount"
    /\ reg_last.uuid = 1
    /\ 1 \in DOMAIN reg_last.before
    /\ reg_last.before[1] = LockedAmount("KMD", 3)
    /\ locked_amounts[1] = LockedAmount("BTC", 1)

\* C10: unlock(uuid, amount) on an existing entry removes it exactly when
\* stored - amount <= 0; otherwise the entry stays, with the same coin and
\* the amount stored - amount.  The other entries are untouched.
C10_UnlockSubtractsOrRemoves ==
    (reg_last.op = "unlock_amount" /\ reg_last.uuid \in DOMAIN reg_last.before) =>
        LET stored == reg_last.before[reg_last.uuid] IN
        /\ stored.amount - reg_last.amount <= 0 <=>
              reg_last.uuid \notin DOMAIN locked_amounts
        /\ reg_last.uuid \in DOMAIN locked_amounts =>
              locked_amounts[reg_last.uuid] =
                  LockedAmount(stored.coin, stored.amount - reg_last.amount)
        /\ \A u \in DOMAIN reg_last.before \ {reg_last.uuid} :
              u \in DOMAIN locked_amounts /\ locked_amounts[u] = reg_last.before[u]

\* C10's witness: unlock(1, 2) of the entry (KMD, 3) left (KMD, 1).
C10_Witness ==
    /\ reg_last.op = "unlock_amount"
    /\ reg_last.uuid = 1
    /\ reg_last.amount = 2
    /\ 1 \in DOMAIN reg_last.before
    /\ reg_last.before[1] = LockedAmount("KMD", 3)
    /\ 1 \in DOMAIN locked_amounts
    /\ locked_amounts[1] = LockedAmount("KMD", 1)

\* C11 as stated: unlock rejects partial decrements; after unlock(uuid, a)
\* the entry of uuid is absent or exactly as it was, never present with a
\* reduced amount.
C11_UnlockNeverReduces ==
    (reg_last.op = "unlock_amount" /\ reg_last.uuid \in DOMAIN reg_last.before) =>
        \/ reg_last.uuid \notin DOMAIN locked_amounts
        \/ locked_amounts[reg_last.uuid] = reg_last.before[reg_last.uuid]

\* C11 as amended: unlock accepts partial decrements.  After unlock(uuid, a)
\* of an entry that holds `stored`, the entry is present with a reduced
\* amount exactly when 0 < a < stored, and then holds stored - a of the same
\* coin; it is exactly as it was only when a = 0.
C11_UnlockReducesPartially ==
    (reg_last.op = "unlock_amount" /\ reg_last.uuid \in DOMAIN reg_last.before) =>
        LET u == reg_last.uuid
            a == reg_last.amount
            stored == reg_last.before[u]
            reduced == u \in DOMAIN locked_amounts /\ locked_amounts[u] # stored
            same == u \in DOMAIN locked_amounts /\ locked_amounts[u] = stored
        IN /\ reduced <=> (0 < a /\ a < stored.amount)
           /\ reduced => /\ locked_amounts[u].coin = stored.coin
                          /\ locked_amounts[u].amount = stored.amount - a
                          /\ locked_amounts[u].amount > 0
           /\ same <=> (a = 0 /\ stored.amount > 0)

\* C11's witness: unlock(2, 1) of the entry (BTC, 3) left it present with
\* the reduced amount 2.
C11_Witness ==
    /\ reg_last.op = "unlock_amount"
    /\ reg_last.uuid = 2
    /\ reg_last.amount = 1
    /\ 2 \in DOMAIN reg_last.before
    /\ reg_last.before[2] = LockedAmount("BTC", 3)
    /\ 2 \in DOMAIN locked_amounts
    /\ locked_amounts[2] = LockedAmount("BTC", 2)

\* The sum of the amounts of the entries of `map` with coin `coin` and a
\* key other than `uuid`, counted amount by amount.
RECURSIVE SumUpToExcept(_, _, _, _)
SumUpToExcept(map, uuid, coin, a) ==
    IF a = 0 THEN 0
    ELSE a * Cardinality({k \in DOMAIN map \ {uuid} :
                             map[k].coin = coin /\ map[k].amount = a})
         + SumUpToExcept(map, uuid, coin, a - 1)

SumOfOtherEntries(map, uuid, coin) == SumUpToExcept(map, uuid, coin, MaxAmount)

\* What the entry of `uuid` adds to the total of `coin`.
OwnAmount(map, uuid, coin) ==
    IF uuid \in DOMAIN map /\ map[uuid].coin = coin THEN map[uuid].amount ELSE 0

\* C12: get_locked_amount_by_other_swaps(uuid, coin) is the sum of the
\* amounts of the entries whose coin is `coin` and whose key is not uuid, and
\* that is what a call of it returns; so get_locked_amount(coin) is that sum
\* plus the amount of uuid's entry when there is one and its coin is `coin`.
C12_LockedByOtherSwaps ==
    /\ \A uuid \in Uuids, coin \in Coins :
          /\ get_locked_amount_by_other_swaps(locked_amounts, uuid, coin)
                = SumOfOtherEntries(locked_amounts, uuid, coin)
          /\ get_locked_amount(locked_amounts, coin)
                = get_locked_amount_by_other_swaps(locked_amounts, uuid, coin)
                  + OwnAmount(locked_amounts, uuid, coin)
    /\ reg_last.op = "get_locked_amount_by_other_swaps" =>
          reg_last.result
            = SumOfOtherEntries(locked_amounts, reg_last.uuid, reg_last.coin)

\* C12's witness: swaps 1 and 2 hold KMD, and the KMD locked by swaps other
\* than 1 was asked for: it is swap 2's amount.
C12_Witness ==
    /\ reg_last.op = "get_locked_amount_by_other_swaps"
    /\ reg_last.uuid = 1
    /\ reg_last.coin = "KMD"
    /\ DOMAIN locked_amounts = {1, 2}
    /\ locked_amounts[1] = LockedAmount("KMD", 2)
    /\ locked_amounts[2] = LockedAmount("KMD", 3)
    /\ reg_last.result = 3

--------------------------------------------------------------------------
(* The swaps' properties.                                                  *)

ToResume(f) ==
    /\ my_dir[f].present /\ my_dir[f].ext = "json" /\ my_dir[f].parses
    /\ ~is_finished(my_dir[f].swap.events)

\* C15 as stated: for every *.json file that parses and whose swap has no
\* terminal event, swap_kick_starts adds the swap's coins to the set and
\* spawns the thread that resumes it; for the others it does neither.
C15_EveryUnfinishedSwapResumed ==
    kicked =>
        LET CoinsOf(f) == {my_dir[f].swap.maker_coin, my_dir[f].swap.taker_coin}
                              \ {"Err"}
        IN /\ \A f \in FileNames :
                 ToResume(f) => (f \in kick_spawned /\ CoinsOf(f) \subseteq kick_coins)
           /\ \A f \in FileNames : ~ToResume(f) => f \notin kick_spawned
           /\ kick_coins \subseteq UNION {CoinsOf(f) : f \in {g \in FileNames : ToResume(g)}}

\* C15 as amended: for every *.json file that parses, whose swap has no
\* terminal event and whose maker and taker coin can both be read, the two
\* coins are in the returned set and a thread is spawned; when the maker
\* coin cannot be read, nothing is added or spawned for the swap; when only
\* the taker coin cannot be read, the maker coin is added and nothing is
\* spawned.  Finished swaps, files that do not parse and files that are not
\* *.json add no coin and spawn nothing.
C15_UnfinishedReadableSwapResumed ==
    kicked =>
        LET swap(f) == my_dir[f].swap
            Readable(f) == swap(f).maker_coin # "Err" /\ swap(f).taker_coin # "Err"
            Added(f) ==
                IF ~ToResume(f) \/ swap(f).maker_coin = "Err" THEN {}
                ELSE {swap(f).maker_coin} \cup ({swap(f).taker_coin} \ {"Err"})
        IN /\ kick_spawned = {f \in FileNames : ToResume(f) /\ Readable(f)}
           /\ kick_coins = UNION {Added(f) : f \in FileNames}
           /\ "Err" \notin kick_coins

\* C15's witness: file 1 holds an unfinished swap of KMD and BTC, file 2 a
\* finished one; the set is {KMD, BTC} and only file 1's swap is resumed.
C15_Witness ==
    /\ kicked
    /\ ToResume(1)
    /\ my_dir[1].swap.maker_coin = "KMD" /\ my_dir[1].swap.taker_coin = "BTC"
    /\ my_dir[2].present /\ my_dir[2].parses /\ my_dir[2].ext = "json"
    /\ is_finished(my_dir[2].swap.events)
    /\ my_dir[2].swap.maker_coin = "BTC" /\ my_dir[2].swap.taker_coin = "BTC"
    /\ kick_coins = {"KMD", "BTC"}
    /\ kick_spawned = {1}

--------------------------------------------------------------------------
(* my_recent_swaps.                                                        *)

\* The files my_recent_swaps lists: those with the extension json and a
\* readable modification time.
Listed(dir) == {i \in DOMAIN dir : dir[i].ext = "json" /\ dir[i].m_time # 0}

\* Whether file f can stand at place p of the listed files ordered latest
\* first: more than the later files, not more than the files not earlier.
AtPlace(dir, f, p) ==
    /\ Cardinality({i \in Listed(dir) : dir[i].m_time > dir[f].m_time}) < p
    /\ p <= Cardinality({i \in Listed(dir) : dir[i].m_time >= dir[f].m_time})

Min(a, b) == IF a < b THEN a ELSE b

\* C21: my_recent_swaps lists the json files latest first, skips those up to
\* and including from_uuid's (none without from_uuid), returns the next
\* `limit` of them at most (10 without limit) in that order; `skipped` is
\* the place of from_uuid's file and `total` the number of listed files.
C21_RecentSwapsPage ==
    (/\ call.fn = "my_recent_swaps"
     /\ ret # NoRet
     /\ call.req.from_uuid.some => call.req.from_uuid.v \in Listed(call.dir))
    => /\ ret.status = 200
       /\ ret.total = Cardinality(Listed(call.dir))
       /\ ret.limit = (IF call.req.limit.some THEN call.req.limit.v ELSE 10)
       /\ IF call.req.from_uuid.some
          THEN /\ AtPlace(call.dir, call.req.from_uuid.v, ret.skipped)
               /\ call.req.from_uuid.v \notin Range(ret.paths)
          ELSE ret.skipped = 0
       /\ Len(ret.paths) = Min(ret.limit, ret.total - ret.skipped)
       /\ NoDuplicates(ret.paths)
       /\ \A i \in DOMAIN ret.paths :
            /\ ret.paths[i] \in Listed(call.dir)
            /\ AtPlace(call.dir, ret.paths[i], ret.skipped + i)
       /\ DOMAIN ret.swaps = DOMAIN ret.paths
       /\ \A i \in DOMAIN ret.swaps :
            ret.swaps[i] = (IF call.dir[ret.paths[i]].parses THEN ret.paths[i] ELSE 0)

\* A page from the middle of the list: files skipped, `limit` files
\* returned, files left over.
C21_Witness ==
    /\ call.fn = "my_recent_swaps"
    /\ ret # NoRet
    /\ ret.status = 200
    /\ call.req.from_uuid.some
    /\ ret.skipped > 1
    /\ ret.limit > 0
    /\ Len(ret.swaps) = ret.limit
    /\ ret.limit < ret.total - ret.skipped

--------------------------------------------------------------------------
(* The payment locktime and the dex fee.                                   *)

\* C23: lp_atomic_locktime gives the same for (base, rel) and (rel, base):
\* 7800 * 10 if either is BTC, else 7800 * 4 if either is BCH, BTG or SBTC,
\* else 7800.
C23_LocktimeSymmetricByClass ==
    (call.fn = "lp_atomic_locktime" /\ ret # NoRet)
    => /\ ret.value = lp_atomic_locktime(call.rel, call.base)
       /\ ret.value =
            (IF "BTC" \in {call.base, call.rel} THEN 7800 * 10
             ELSE IF {call.base, call.rel} \cap {"BCH", "BTG", "SBTC"} # {} THEN 7800 * 4
             ELSE 7800)

\* BTC on one side and a 4x coin on the other: BTC decides.
C23_Witness ==
    /\ call.fn = "lp_atomic_locktime"
    /\ call.base = "BCH"
    /\ call.rel = "BTC"
    /\ ret # NoRet
    /\ ret.value = 78000

\* The rate of the pair as a decimal: 9/7770 with KMD on a side, else 1/777.
RateOf(base, rel) ==
    IF "KMD" \in {base, rel} THEN dec_div(9, 7770) ELSE dec_div(1, 777)

\* Whether the decimal q is a/b, up to the last place of q.
IsQuotient(q, a, b) ==
    /\ q.int * b <= a * Pow10(q.scale)
    /\ a * Pow10(q.scale) < (q.int + 1) * b

\* C24: the dex fee of an amount above 0 is at least 0.0001, and is 0.0001
\* whenever amount * rate is below 0.0001 (BTC/KMD, amount 0.001).
C24_DexFeeFloor ==
    (call.fn = "dex_fee_amount" /\ ret # NoRet /\ call.trade_amount.int > 0)
    => /\ ~dec_lt(ret.value, Dec(1, 4))
       /\ dec_lt(dec_mul(call.trade_amount, RateOf(call.base, call.rel)), Dec(1, 4))
            => dec_eq(ret.value, Dec(1, 4))
       /\ (call.base = "BTC" /\ call.rel = "KMD" /\ call.trade_amount = Dec(1, 3))
            => dec_eq(ret.value, Dec(1, 4))

C24_Witness ==
    /\ call.fn = "dex_fee_amount"
    /\ call.base = "BTC"
    /\ call.rel = "KMD"
    /\ call.trade_amount = Dec(1, 3)
    /\ ret # NoRet
    /\ ret.value = Dec(1, 4)

\* C25: whenever amount * rate is 0.0001 or more the dex fee is amount *
\* rate, the rate being 9/7770 if base or rel is KMD and 1/777 otherwise:
\* 9/7770 for KMD/ETH and BTC/KMD and 1/777 for BTC/ETH, amount 1.
C25_DexFeeIsAmountTimesRate ==
    (call.fn = "dex_fee_amount" /\ ret # NoRet)
    => /\ ~dec_lt(dec_mul(call.trade_amount, RateOf(call.base, call.rel)), Dec(1, 4))
            => dec_eq(ret.value, dec_mul(call.trade_amount, RateOf(call.base, call.rel)))
       /\ (call.trade_amount = Dec(1, 0) /\ "KMD" \in {call.base, call.rel})
            => IsQuotient(ret.value, 9, 7770)
       /\ (call.trade_amount = Dec(1, 0) /\ "KMD" \notin {call.base, call.rel})
            => IsQuotient(ret.value, 1, 777)

\* A fee above the floor at the reduced rate, of an amount that is not 1.
C25_Witness ==
    /\ call.fn = "dex_fee_amount"
    /\ call.base = "BTC"
    /\ call.rel = "KMD"
    /\ call.trade_amount = Dec(25, 1)
    /\ ret # NoRet
    /\ dec_eq(ret.value, dec_mul(Dec(25, 1), dec_div(9, 7770)))
    /\ dec_lt(Dec(1, 4), ret.value)

--------------------------------------------------------------------------
(* broadcast_my_swap_status.                                               *)

BroadcastDone == call.fn = "broadcast_my_swap_status" /\ ret # NoRet /\ ret.status = 200

\* C22 (as stated): the stats copy and the broadcast message never contain
\* the maker's secret.
C22_NoSecretInStatsCopy ==
    BroadcastDone => (ret.stats.content.secret = 0 /\ ret.msg.data.secret = 0)

\* C22 (amended): of a maker's swap the stats copy and the message hold no
\* secret while MY's file keeps it; a taker's swap is copied unchanged, the
\* secret of its TakerPaymentSpent event included.
C22_MakerSecretHiddenTakerCopied ==
    BroadcastDone
    => /\ ret.msg.sent
       /\ ret.msg.data = ret.stats.content
       /\ ret.my_file = call.my_file
       /\ call.my_file.type = "Maker"
            => /\ ret.stats.content = [call.my_file EXCEPT !.secret = 0]
               /\ ret.stats.path = [dir |-> "MAKER", uuid |-> call.my_file.uuid]
               /\ ret.my_file.secret # 0
       /\ call.my_file.type = "Taker"
            => /\ ret.stats.content = call.my_file
               /\ ret.stats.path = [dir |-> "TAKER", uuid |-> call.my_file.uuid]

\* A maker's swap has been broadcast.
C22_Witness ==
    /\ BroadcastDone
    /\ call.my_file.type = "Maker"
    /\ call.my_file.secret # 0
    /\ ret.stats.content.secret = 0

--------------------------------------------------------------------------
(* IndexedDbBuilder::init and the open databases.                          *)

\* C26 (as stated): a call of init made while a handle of the same name is
\* alive fails with DbIsOpenAlready, whatever the version, and does not ask
\* the browser to open the database.
C26_InitRejectedWhileHandleAlive ==
    (db_last # NoInitCall /\ db_last.alive_at_call)
    => (db_last.result = "DbIsOpenAlready" /\ ~db_last.requested)

\* C27: the drop of a handle removes its name from the set of the open
\* databases, and an init of that name called after it (no handle of the
\* name returned in between) is not rejected as open already.
C27_DropReleasesName ==
    /\ \A n \in DbNames : dropped_since[n] => n \notin open_databases
    /\ (db_last # NoInitCall /\ db_last.after_drop) => db_last.result # "DbIsOpenAlready"

\* A database opened, its handle dropped, and opened again.
C27_Witness ==
    \E i, j \in InitIds :
        /\ i < j
        /\ db_inits[i].pc = "done" /\ db_inits[i].result = "Ok"
        /\ i \notin db_handles
        /\ db_inits[j].pc = "done" /\ db_inits[j].result = "Ok"
        /\ db_inits[j].after_drop
        /\ db_inits[j].db_name = db_inits[i].db_name
        /\ j \in db_handles

--------------------------------------------------------------------------
(* The registry's mutex.                                                   *)

InBody(t) == reg_threads[t].pc \in {"holding", "finished"}

\* What a whole call makes of the map, and what it returns.
EffectOf(c, map) ==
    CASE c.op = "lock_amount" -> lock_amount(map, c.uuid, c.coin, c.amount)
      [] c.op = "unlock_amount" -> unlock_amount(map, c.uuid, c.amount)
      [] OTHER -> map

TotalOf(c, map) ==
    CASE c.op = "get_locked_amount" -> get_locked_amount(map, c.coin)
      [] c.op = "get_locked_amount_by_other_swaps" ->
            get_locked_amount_by_other_swaps(map, c.uuid, c.coin)
      [] OTHER -> 0

\* C28: the mutex serializes the calls of the registry: no two threads work
\* on the map at once, a call finds the map as the last whole call left
\* it, leaves it as the whole operation does, and the total it returns is
\* the total of the map it found.
C28_RegistryCallsSerialized ==
    /\ \A t1, t2 \in Threads : (InBody(t1) /\ InBody(t2)) => t1 = t2
    /\ mtx_owner = "-" => locked_amounts = mtx_between
    /\ \A t \in Threads :
         /\ InBody(t) => reg_threads[t].seen = mtx_between
         /\ reg_threads[t].pc = "finished"
              => /\ locked_amounts = EffectOf(reg_threads[t].call, reg_threads[t].seen)
                 /\ reg_threads[t].total = TotalOf(reg_threads[t].call, reg_threads[t].seen)

\* A query that has added up two entries while an unlock of one of them
\* waits for the mutex.
C28_Witness ==
    /\ reg_threads["t1"].pc = "finished"
    /\ reg_threads["t1"].call.op = "get_locked_amount"
    /\ reg_threads["t1"].total = 3
    /\ reg_threads["t2"].pc = "waiting"
    /\ reg_threads["t2"].call.op = "unlock_amount"
    /\ reg_threads["t2"].call.uuid \in DOMAIN locked_amounts
    /\ locked_amounts[reg_threads["t2"].call.uuid].coin = reg_threads["t1"].call.coin

--------------------------------------------------------------------------
(* SwapNegotiationData on the wire.                                        *)

\* C29: deserialize(serialize(d)) is d for every SwapNegotiationData d
\* (started_at, payment_locktime, secret_hash, persistent_pubkey).
C29_NegotiationRoundTrip ==
    (call.fn = "serde_swap_negotiation_data" /\ ret # NoRet)
    => /\ ret.deserialized.ok
       /\ ret.deserialized.data = call.data

\* A round trip of data whose four fields all differ from the default and
\* from each other.
C29_Witness ==
    /\ call.fn = "serde_swap_negotiation_data"
    /\ ret # NoRet
    /\ call.data.started_at = 65535
    /\ call.data.payment_locktime = 256
    /\ call.data.secret_hash[1] = 1
    /\ call.data.persistent_pubkey[1] = 254
    /\ ret.deserialized.ok
    /\ ret.deserialized.data.started_at = 65535
    /\ Len(ret.bytes) = 69

--------------------------------------------------------------------------
(* spawn_ws_transport.                                                     *)

\* C30: when the platform refuses the url at the construction of the socket,
\* spawn_ws_transport returns Err and spawns no task: the user holds no end
\* of a channel and no WebSocketEvent is ever emitted.
C30_InvalidUrlSpawnsNothing ==
    spawned = "Err"
    => /\ state = "NotSpawned"
       /\ out_senders = 0
       /\ ~in_rx_alive
       /\ notified = <<>>
       /\ incoming = <<>>
       /\ received = <<>>
       /\ transport = <<>>
       /\ ~ENABLED SpawnNext

C30_Witness == spawned = "Err" /\ state = "NotSpawned"

--------------------------------------------------------------------------
\* The reserved base amounts of the first n matches of the order, added up
\* (the amounts of the matches are whole numbers).
RECURSIVE ReservedUpTo(_, _)
ReservedUpTo(order, n) ==
    IF n = 0 THEN 0
    ELSE ReservedUpTo(order, n - 1) + order.matches[n].reserved_base_amount.int

--------------------------------------------------------------------------
\* The requests of test_match_maker_order_and_taker_request, the price of
\* the maker order each is matched with, and the result the test expects.
TestRequest(base, rel, action, base_amount, rel_amount) ==
    [base |-> base, rel |-> rel, action |-> action,
     base_amount |-> Dec(base_amount, 0), rel_amount |-> Dec(rel_amount, 0)]

TestMatches ==
    {[price |-> Dec(1, 0), taker |-> TestRequest("BASE", "REL", "Buy", 10, 20),
      expected |-> Matched(Dec(10, 0), Dec(10, 0))],
     [price |-> Dec(5, 1), taker |-> TestRequest("BASE", "REL", "Buy", 10, 20),
      expected |-> Matched(Dec(10, 0), Dec(5, 0))],
     [price |-> Dec(5, 1), taker |-> TestRequest("BASE", "REL", "Buy", 10, 2),
      expected |-> NotMatched],
     [price |-> Dec(5, 1), taker |-> TestRequest("REL", "BASE", "Sell", 5, 10),
      expected |-> Matched(Dec(10, 0), Dec(5, 0))],
     [price |-> Dec(5, 1), taker |-> TestRequest("REL", "BASE", "Sell", 10, 10),
      expected |-> Matched(Dec(20, 0), Dec(10, 0))]}

SameResult(a, b) ==
    /\ a.matched = b.matched
    /\ a.matched => dec_eq(a.base, b.base) /\ dec_eq(a.rel, b.rel)

--------------------------------------------------------------------------
\* C33 (as stated): whatever the interleaving of the calls of init and the
\* drops, no two live IndexedDb handles have the same database name: two
\* calls of init with one name that overlap across the await between the
\* check of the set and the caching of the name do not both succeed.
C33_OneLiveHandlePerName ==
    \A i \in db_handles, j \in db_handles :
        db_inits[i].db_name = db_inits[j].db_name => i = j

--------------------------------------------------------------------------
\* The call i of init returns in this step, with Ok or with an error.
ReturnsOk(i) ==
    /\ db_inits[i].pc # "done"
    /\ db_inits'[i].pc = "done"
    /\ db_inits'[i].result = "Ok"

ReturnsErr(i) ==
    /\ db_inits[i].pc # "done"
    /\ db_inits'[i].pc = "done"
    /\ db_inits'[i].result # "Ok"

\* C37: a step of a call of init that returns an error (DbIsOpenAlready,
\* EmptyTableList, NotSupported, InvalidVersion, OpeningError, a failed
\* upgrade) or that does not return yet leaves the set of the open databases
\* as it was; a name enters the set only in the step in which an init of
\* that name returns Ok.
C37_OnlyOkInitAddsName ==
    [][/\ \A i \in InitIds :
            (db_inits'[i] # db_inits[i] /\ ~ReturnsOk(i)) => open_databases' = open_databases
       /\ \A n \in open_databases' \ open_databases :
            \E i \in InitIds : ReturnsOk(i) /\ db_inits'[i].db_name = n]_vars

\* One call of init has failed in its upgrade and another has returned Ok;
\* the set holds the name of the one that returned Ok.
C37_Witness ==
    /\ open_databases = {"DB1"}
    /\ \E i \in InitIds : db_inits[i].pc = "done" /\ db_inits[i].result = "UpgradingError"
    /\ \E i \in InitIds : db_inits[i].pc = "done" /\ db_inits[i].result = "Ok"

--------------------------------------------------------------------------
\* C38: unlock_amount for a uuid that has no entry changes nothing: the map
\* after it is the map before it, the uuid still has no entry, and the
\* amount locked of every coin, by all swaps and by all swaps but any one,
\* is what it was.
C38_UnlockOfUnknownUuidIsNoOp ==
    (reg_last.op = "unlock_amount" /\ reg_last.uuid \notin DOMAIN reg_last.before) =>
        /\ locked_amounts = reg_last.before
        /\ reg_last.uuid \notin DOMAIN locked_amounts
        /\ \A c \in Coins :
              /\ get_locked_amount(locked_amounts, c) = get_locked_amount(reg_last.before, c)
              /\ \A u \in Uuids :
                    get_locked_amount_by_other_swaps(locked_amounts, u, c)
                        = get_locked_amount_by_other_swaps(reg_last.before, u, c)

\* An unlock with a positive amount for a uuid without an entry, while
\* another swap has an amount locked.
C38_Witness ==
    /\ reg_last.op = "unlock_amount"
    /\ reg_last.amount > 0
    /\ reg_last.uuid \notin DOMAIN reg_last.before
    /\ reg_last.before # NoMap
    /\ locked_amounts = reg_last.before

--------------------------------------------------------------------------
\* The state machine takes an item of the merged stream in this step.
TakesEvent ==
    \/ outgoing # <<>> /\ outgoing' = Tail(outgoing)
    \/ transport # <<>> /\ transport' = Tail(transport)
    \/ shutdown = "ready" /\ shutdown' = "taken"

\* The state the transitions of the specification lead to from state st on
\* an event of the given kind.
NextStateOf(st, kind) ==
    CASE st = "Connecting" /\ kind = "Establish" -> "Open"
      [] st \in {"Connecting", "Open"} /\ kind \in {"UserSideClosed", "Error"} -> "Closing"
      [] kind = "Close" -> "Closed"
      [] OTHER -> st

\* C34: notifying the user never stalls the state machine.  Whenever the
\* merged stream has an item and the task is running, the state machine can
\* take it, however full the incoming channel is and whether or not its
\* receiver is alive; when it takes one while the channel is full or the
\* receiver dropped, the channel is left as it is (the events are dropped)
\* and the state changes as the event demands.
C34_NotifyNeverStallsFsm ==
    /\ []((state # "Closed" /\ ReadySources # {}) => ENABLED FsmStep)
    /\ [][TakesEvent =>
            /\ last'.from = state
            /\ state' = NextStateOf(state, last'.ev.kind)
            /\ (~in_rx_alive \/ Len(incoming) >= IncomingCap) => incoming' = incoming
            /\ Len(incoming') <= IncomingCap]_vars

\* The task has exited although the user took no event: the channel is full
\* and the last events were dropped.
C34_Witness ==
    /\ state = "Closed"
    /\ in_rx_alive
    /\ received = <<>>
    /\ Len(incoming) = IncomingCap
    /\ Len(notified) > IncomingCap

--------------------------------------------------------------------------
\* C35: a Close of the socket handled in Connecting or Open takes the state
\* machine to Closed in that step.  Closed is the one event it notifies, no
\* Closing has been notified before it, so the user, who gets the Closed
\* when the channel takes it, gets no Closing; and close() has not been
\* invoked on the socket, in this step or before.
C35_CloseGoesStraightToClosed ==
    [][(/\ TakesTransport
        /\ Head(transport).type = "Close"
        /\ state \in {"Connecting", "Open"}) =>
            /\ state' = "Closed"
            /\ notified' = Append(notified, EvClosed)
            /\ \A i \in DOMAIN notified' : notified'[i] # EvClosing
            /\ (in_rx_alive /\ Len(incoming) < IncomingCap) =>
                  incoming' = Append(incoming, EvClosed)
            /\ ws_close_calls' = ws_close_calls
            /\ ws_close_calls' = 0]_vars

\* The socket closed an open connection: the user has received Establish
\* and Closed, and close() was never invoked.
C35_Witness ==
    /\ state = "Closed"
    /\ last.from = "Open"
    /\ last.ev.kind = "Close"
    /\ received = <<EvEstablish, EvClosed>>
    /\ ws_close_calls = 0

--------------------------------------------------------------------------
\* Every Incoming of the sequence of events has an Establish before it and
\* no Closing before it.
IncomingBetweenEstablishAndClosing(events) ==
    \A i \in DOMAIN events :
        events[i].type = "Incoming" =>
            /\ \E j \in 1..(i - 1) : events[j] = EvEstablish
            /\ \A j \in 1..(i - 1) : events[j] # EvClosing

\* C36: an Incoming event is notified only by the Open state.  A step that
\* notifies one starts and ends in Open; a message of the socket taken in
\* Connecting or in Closing is dropped, with no event and no change of
\* state.  So neither the events notified nor those the user has received
\* have an Incoming before Establish or after Closing.
C36_IncomingOnlyWhileOpen ==
    /\ [][/\ Len(IncomingNotified') > Len(IncomingNotified) =>
                state = "Open" /\ state' = "Open"
          /\ (/\ TakesTransport
              /\ Head(transport).type = "Incoming"
              /\ state \in {"Connecting", "Closing"}) =>
                /\ notified' = notified
                /\ incoming' = incoming
                /\ state' = state]_vars
    /\ [](/\ IncomingBetweenEstablishAndClosing(notified)
          /\ IncomingBetweenEstablishAndClosing(received))

\* A message was passed to the user while the connection was open, and the
\* next one, taken in Closing, was dropped.
C36_Witness ==
    /\ state = "Closing"
    /\ last.from = "Closing"
    /\ last.ev.kind = "Incoming"
    /\ Len(IncomingNotified) = 1
    /\ \E i \in DOMAIN received : received[i].type = "Incoming"

--------------------------------------------------------------------------
\* C39: known_peers never holds a peer twice, whatever add_peer_addresses
\* calls, KnownPeers responses, failures and ticks have been handled; and a
\* peer enters the list only in a step in which it arrives, by
\* add_peer_addresses or in a KnownPeers response, with at least one address.
C39_KnownPeersDistinctAndAddedWithAddress ==
    /\ [](NoDuplicates(known_peers))
    /\ [][\A peer \in SeqRange(known_peers') \ SeqRange(known_peers) :
            /\ peers_last'.op \in {"add_peer_addresses", "KnownPeers"}
            /\ peer \in DOMAIN peers_last'.arrived
            /\ peers_last'.arrived[peer] # <<>>
            /\ address_book'[peer] # {}]_vars

\* A KnownPeers response brought a peer without addresses, which was not
\* added, and a peer with addresses, which is known; two peers are known.
C39_Witness ==
    /\ peers_last.op = "KnownPeers"
    /\ Len(known_peers) >= 2
    /\ \E peer \in DOMAIN peers_last.arrived :
          peers_last.arrived[peer] = <<>> /\ ~contains(known_peers, peer)
    /\ \E peer \in DOMAIN peers_last.arrived :
          peers_last.arrived[peer] # <<>> /\ contains(known_peers, peer)

\* C40: after maintain_known_peers has run, known_peers holds at most
\* MAX_PEERS peers: all it held when those were no more than MAX_PEERS,
\* else exactly MAX_PEERS of them, the others evicted.  Every evicted peer
\* has no address left in the address book, and every peer that was kept
\* has the addresses it had.
C40_MaintainEvictsDownToMaxPeers ==
    [][peers_last'.op = "maintain_known_peers" =>
          LET removed == peers_last'.removed_peers
          IN /\ Len(known_peers') <= MaxKnownPeers
             /\ Len(known_peers') = IF Len(known_peers) > MaxKnownPeers
                                    THEN MaxKnownPeers ELSE Len(known_peers)
             /\ Len(removed) = Len(known_peers) - Len(known_peers')
             /\ NoDuplicates(removed)
             /\ SeqRange(removed) \cup SeqRange(known_peers') = SeqRange(known_peers)
             /\ SeqRange(removed) \cap SeqRange(known_peers') = {}
             /\ \A peer \in SeqRange(removed) : address_book'[peer] = {}
             /\ \A peer \in SeqRange(known_peers') :
                   address_book'[peer] = address_book[peer] /\ address_book'[peer] # {}]_vars

\* Two of three known peers have been evicted; the peer that was kept has
\* its two addresses.
C40_Witness ==
    /\ peers_last.op = "maintain_known_peers"
    /\ Len(peers_last.removed_peers) = 2
    /\ Len(known_peers) = MaxKnownPeers
    /\ \A peer \in SeqRange(peers_last.removed_peers) : address_book[peer] = {}
    /\ \E peer \in SeqRange(known_peers) : address_book[peer] = {"a1", "a2"}

==========================================================================
